---- MODULE Spec2Model ----
(***************************************************************************)
(* Plugin discovery and adaptive query resolution of sage-mcp.             *)
(*                                                                         *)
(* Text is modelled as a sequence of one-character strings, so that        *)
(* lower-casing, substring tests, whitespace splitting and wildcard        *)
(* wrapping are computed the way the Python code computes them.            *)
(*                                                                         *)
(* Specifications:                                                         *)
(*   Spec          the plugin registry, one action per public operation    *)
(*   SpecConc      refresh_cache step by step, interleaved with readers    *)
(*   SpecQuery     the measurement query tools, the time-series contract   *)
(*   SpecScore     the relevance score of search_plugins                   *)
(*   SpecPattern   the plugin patterns the query tools build               *)
(*   SpecTranslate parse_natural_query                                     *)
(*   SpecDocs      refreshes against a changing document store             *)
(*   SpecCore      the operations of the plugin query service              *)
(*   SpecCatalog   the registry fed with catalog bodies as the wire gives  *)
(*                 them                                                    *)
(*   SpecFormat    format_plugin_data                                      *)
(*   SpecIntent    texts that name nodes, parsed and queried               *)
(*   SpecRace      two overlapping refreshes at the document cache         *)
(***************************************************************************)
EXTENDS Integers, Sequences, FiniteSets, TLC

VARIABLES
    plugins,                    \* PluginRegistry.plugins: insertion-ordered dict
    science_description_cache,  \* PluginRegistry.science_description_cache
    last,                       \* the last completed operation, its inputs and its result
    rpc,                        \* SpecConc: position of the in-flight refresh_cache
    rstate,                     \* SpecConc: locals of the in-flight refresh_cache
    observed,                   \* SpecConc: what the last concurrent reader saw
    call                        \* SpecQuery: the last tool call, the queries it issued, its answer

vars == <<plugins, science_description_cache, last, rpc, rstate, observed, call>>

(***************************************************************************)
(* Bounds of the model.                                                    *)
(***************************************************************************)
MaxRecords == 2          \* longest upstream catalog list
MaxResultsBound == 3     \* largest max_results given to search_plugins

(***************************************************************************)
(* Text helpers (Python str methods).                                      *)
(***************************************************************************)
EmptyStr == <<>>

SP == <<" ">>

\* str.lower(), for the upper-case letters the inputs use
LowerChar(c) ==
    CASE c = "P" -> "p"
      [] c = "T" -> "t"
      [] c = "Z" -> "z"
      [] c = "W" -> "w"
      [] OTHER -> c

Lower(s) == [i \in 1..Len(s) |-> LowerChar(s[i])]

\* str.upper(), for the lower-case letters the inputs use
UpperChar(c) ==
    CASE c = "p" -> "P"
      [] c = "t" -> "T"
      [] c = "z" -> "Z"
      [] c = "w" -> "W"
      [] OTHER -> c

Upper(s) == [i \in 1..Len(s) |-> UpperChar(s[i])]

\* s.startswith(p)
StartsWith(s, p) == Len(p) <= Len(s) /\ SubSeq(s, 1, Len(p)) = p

\* s.endswith(p)
EndsWith(s, p) == Len(p) <= Len(s) /\ SubSeq(s, Len(s) - Len(p) + 1, Len(s)) = p

\* sub in s
Contains(sub, s) ==
    \E i \in 1..(Len(s) - Len(sub) + 1) : SubSeq(s, i, i + Len(sub) - 1) = sub

\* sep.join(parts)
RECURSIVE Join(_, _)
Join(parts, sep) ==
    IF parts = <<>> THEN EmptyStr
    ELSE IF Len(parts) = 1 THEN parts[1]
    ELSE parts[1] \o sep \o Join(Tail(parts), sep)

\* filter(None, parts): drops the empty strings
RECURSIVE FilterNonEmpty(_)
FilterNonEmpty(parts) ==
    IF parts = <<>> THEN <<>>
    ELSE IF parts[1] = EmptyStr THEN FilterNonEmpty(Tail(parts))
    ELSE <<parts[1]>> \o FilterNonEmpty(Tail(parts))

\* s.split(sep) for a one-character separator: keeps empty fragments
RECURSIVE SplitOn(_, _, _)
SplitOn(s, sep, cur) ==
    IF s = <<>> THEN <<cur>>
    ELSE IF s[1] = sep THEN <<cur>> \o SplitOn(Tail(s), sep, EmptyStr)
    ELSE SplitOn(Tail(s), sep, Append(cur, s[1]))

\* s.split(): whitespace split, no empty fragments
SplitWords(s) == FilterNonEmpty(SplitOn(s, " ", EmptyStr))

\* s.strip()
RECURSIVE LStrip(_)
LStrip(s) == IF s # <<>> /\ s[1] = " " THEN LStrip(Tail(s)) ELSE s

RECURSIVE RStrip(_)
RStrip(s) ==
    IF s # <<>> /\ s[Len(s)] = " " THEN RStrip(SubSeq(s, 1, Len(s) - 1)) ELSE s

Strip(s) == RStrip(LStrip(s))

Range(f) == {f[i] : i \in DOMAIN f}

(***************************************************************************)
(* Words used by the inputs and by the keyword tables of the code.         *)
(***************************************************************************)
w_ptz == <<"p", "t", "z">>
w_PTZ == <<"P", "T", "Z">>
w_pan == <<"p", "a", "n">>
w_ai == <<"a", "i">>
w_ml == <<"m", "l">>
w_rain == <<"r", "a", "i", "n">>
w_zzz == <<"z", "z", "z">>
w_camera == <<"c", "a", "m", "e", "r", "a">>
w_image == <<"i", "m", "a", "g", "e">>
w_video == <<"v", "i", "d", "e", "o">>
w_tilt == <<"t", "i", "l", "t">>
w_zoom == <<"z", "o", "o", "m">>
w_audio == <<"a", "u", "d", "i", "o">>
w_sound == <<"s", "o", "u", "n", "d">>
w_microphone == <<"m", "i", "c", "r", "o", "p", "h", "o", "n", "e">>
w_bird == <<"b", "i", "r", "d">>
w_noise == <<"n", "o", "i", "s", "e">>
w_detect == <<"d", "e", "t", "e", "c", "t">>
w_yolo == <<"y", "o", "l", "o">>
w_object == <<"o", "b", "j", "e", "c", "t">>
w_recognition == <<"r", "e", "c", "o", "g", "n", "i", "t", "i", "o", "n">>
w_temperature == <<"t", "e", "m", "p", "e", "r", "a", "t", "u", "r", "e">>
w_humidity == <<"h", "u", "m", "i", "d", "i", "t", "y">>
w_pressure == <<"p", "r", "e", "s", "s", "u", "r", "e">>
w_weather == <<"w", "e", "a", "t", "h", "e", "r">>
w_motion == <<"m", "o", "t", "i", "o", "n">>
w_tracking == <<"t", "r", "a", "c", "k", "i", "n", "g">>
w_movement == <<"m", "o", "v", "e", "m", "e", "n", "t">>

w_air == <<"a", "i", "r">>
w_quality == <<"q", "u", "a", "l", "i", "t", "y">>
w_cloud == <<"c", "l", "o", "u", "d">>
w_sampler == <<"s", "a", "m", "p", "l", "e", "r">>
w_wxt == <<"w", "x", "t">>
w_gauge == <<"g", "a", "u", "g", "e">>
w_temp == <<"t", "e", "m", "p">>
w_avian == <<"a", "v", "i", "a", "n">>
w_mobotix == <<"m", "o", "b", "o", "t", "i", "x">>
w_latest == <<"l", "a", "t", "e", "s", "t">>
w_recent == <<"r", "e", "c", "e", "n", "t">>
w_current == <<"c", "u", "r", "r", "e", "n", "t">>
w_now == <<"n", "o", "w">>
w_upload == <<"u", "p", "l", "o", "a", "d">>
w_ab == <<"a", "b">>
w_30m == <<"-", "3", "0", "m">>
w_1h == <<"-", "1", "h">>
STAR == <<"*">>
PIPE == <<"|">>
DASH == <<"-">>
WILD == <<".", "*">>
w_photo == <<"p", "h", "o", "t", "o">>
w_picture == <<"p", "i", "c", "t", "u", "r", "e">>
w_environmental == <<"e", "n", "v", "i", "r", "o", "n", "m", "e", "n", "t", "a", "l">>
w_recording == <<"r", "e", "c", "o", "r", "d", "i", "n", "g">>
w_precipitation == <<"p", "r", "e", "c", "i", "p", "i", "t", "a", "t", "i", "o", "n">>
w_sky == <<"s", "k", "y">>
w_hour == <<"h", "o", "u", "r">>
w_hr == <<"h", "r">>
w_minute == <<"m", "i", "n", "u", "t", "e">>
w_min == <<"m", "i", "n">>
w_cover == <<"c", "o", "v", "e", "r">>
w_detection == <<"d", "e", "t", "e", "c", "t", "i", "o", "n">>
w_imagesampler == <<"i", "m", "a", "g", "e", "s", "a", "m", "p", "l", "e", "r">>
w_ptzapp_yolo == <<"p", "t", "z", "a", "p", "p", "-", "y", "o", "l", "o">>

(***************************************************************************)
(* The plugin registry: data.                                              *)
(***************************************************************************)

\* PluginMetadata as refresh_cache builds it from one upstream record
\* (the fields the registry operations read).
PluginMetadata(rec, content) ==
    [id |-> rec.id,
     name |-> rec.name,
     description |-> rec.description,
     keywords |-> rec.keywords,
     science_description |-> rec.science_description,
     science_description_content |-> content,
     metadata |-> rec.metadata]

\* PluginMetadata.get_search_text
get_search_text(p) ==
    Join(FilterNonEmpty(<<p.name, p.description, p.keywords,
                          p.science_description_content,
                          Join(FilterNonEmpty(p.metadata), SP)>>), SP)

\* The empty dict and the dict operations the registry uses.  A dict is its
\* keys in insertion order and the value of each key.
EmptyDict == [keys |-> <<>>, val |-> <<>>]

DictHas(d, k) == \E i \in 1..Len(d.keys) : d.keys[i] = k

DictIndex(d, k) == CHOOSE i \in 1..Len(d.keys) : d.keys[i] = k

DictGet(d, k) == d.val[DictIndex(d, k)]

\* d[k] = v: a present key keeps its place, a new key goes last
DictSet(d, k, v) ==
    IF DictHas(d, k)
    THEN [keys |-> d.keys, val |-> [d.val EXCEPT ![DictIndex(d, k)] = v]]
    ELSE [keys |-> Append(d.keys, k), val |-> Append(d.val, v)]

\* d.values(), in insertion order
DictValues(d) == d.val

(***************************************************************************)
(* Upstream: the catalog source and the document store.                    *)
(***************************************************************************)
id_a == <<"a">>
id_b == <<"b">>
ref_x == <<"x">>
doc_x == w_ai

\* One upstream record.  description, keywords and science_description are
\* EmptyStr when the record lacks them or carries null (the code reads them
\* with `or ""`); id is EmptyStr when the record has no id; wellformed is
\* FALSE when building PluginMetadata, PluginInput or PluginSource raises.
rec_a == [id |-> id_a, name |-> w_ptz, description |-> w_pan, keywords |-> w_ai,
          science_description |-> ref_x, metadata |-> <<>>, wellformed |-> TRUE]
rec_a2 == [id |-> id_a, name |-> w_rain, description |-> w_ptz, keywords |-> EmptyStr,
           science_description |-> EmptyStr, metadata |-> <<>>, wellformed |-> TRUE]
rec_b == [id |-> id_b, name |-> w_PTZ, description |-> EmptyStr, keywords |-> EmptyStr,
          science_description |-> EmptyStr, metadata |-> <<w_yolo>>, wellformed |-> TRUE]
rec_noid == [id |-> EmptyStr, name |-> w_ptz, description |-> EmptyStr, keywords |-> EmptyStr,
             science_description |-> ref_x, metadata |-> <<>>, wellformed |-> TRUE]
rec_bad == [id |-> id_b, name |-> w_zzz, description |-> EmptyStr, keywords |-> EmptyStr,
            science_description |-> ref_x, metadata |-> <<>>, wellformed |-> FALSE]

RecordPool == {rec_a, rec_a2, rec_b, rec_noid, rec_bad}

Refs == {ref_x}

\* All sequences over S of length at most n
RECURSIVE SeqsUpTo(_, _)
SeqsUpTo(S, n) ==
    IF n = 0 THEN {<<>>}
    ELSE LET shorter == SeqsUpTo(S, n - 1)
         IN shorter \cup {Append(s, x) : s \in {t \in shorter : Len(t) = n - 1}, x \in S}

Catalogs == SeqsUpTo(RecordPool, MaxRecords)

\* The answer of the document store to GET meta-files/<ref>: status 200 with
\* a text, or a failure (exception or another status).
DocOk(text) == [ok |-> TRUE, text |-> text]
DocFail == [ok |-> FALSE, text |-> EmptyStr]

DocResponses == [Refs -> {DocFail, DocOk(doc_x)}]

NoDocs == [r \in Refs |-> DocFail]

\* The answer of the catalog source to GET /api/apps, with the answers the
\* document store gives during the same refresh:
\*   exception  requests.get raises
\*   non200     a status other than 200
\*   object     200, a JSON object whose "data" is the record list
\*   array      200, a JSON array of records
Responses ==
    {[kind |-> "exception", data |-> <<>>, docs |-> NoDocs],
     [kind |-> "non200", data |-> <<>>, docs |-> NoDocs]}
    \cup {[kind |-> "object", data |-> c, docs |-> d] : c \in Catalogs, d \in DocResponses}
    \cup {[kind |-> "array", data |-> c, docs |-> NoDocs] : c \in Catalogs}

(***************************************************************************)
(* The plugin registry: ingestion.                                         *)
(***************************************************************************)

\* fetch_science_description with a cache hit that hands back no content
fetch_science_description_DropsHit(cache, path, docs) ==
    IF path = EmptyStr \/ path \in DOMAIN cache
    THEN [content |-> EmptyStr, cache |-> cache, fetched |-> <<>>]
    ELSE IF docs[path].ok
    THEN [content |-> docs[path].text,
          cache |-> [r \in DOMAIN cache \cup {path} |->
                        IF r = path THEN docs[path].text ELSE cache[r]],
          fetched |-> <<path>>]
    ELSE [content |-> EmptyStr, cache |-> cache, fetched |-> <<path>>]

\* fetch_science_description that caches the empty content of a failed GET
fetch_science_description_CachesFailure(cache, path, docs) ==
    IF path = EmptyStr
    THEN [content |-> EmptyStr, cache |-> cache, fetched |-> <<>>]
    ELSE IF path \in DOMAIN cache
    THEN [content |-> cache[path], cache |-> cache, fetched |-> <<>>]
    ELSE [content |-> docs[path].text,
          cache |-> [r \in DOMAIN cache \cup {path} |->
                        IF r = path THEN docs[path].text ELSE cache[r]],
          fetched |-> <<path>>]

\* fetch_science_description that does not look into the cache
fetch_science_description_NoReuse(cache, path, docs) ==
    IF path = EmptyStr
    THEN [content |-> EmptyStr, cache |-> cache, fetched |-> <<>>]
    ELSE IF docs[path].ok
    THEN [content |-> docs[path].text,
          cache |-> [r \in DOMAIN cache \cup {path} |->
                        IF r = path THEN docs[path].text ELSE cache[r]],
          fetched |-> <<path>>]
    ELSE [content |-> EmptyStr, cache |-> cache, fetched |-> <<path>>]

\* PluginRegistry._fetch_science_description: the content, the cache after
\* the call, and whether a GET was issued.
fetch_science_description(cache, path, docs) ==
    IF path = EmptyStr
    THEN [content |-> EmptyStr, cache |-> cache, fetched |-> <<>>]
    ELSE IF path \in DOMAIN cache
    THEN [content |-> cache[path], cache |-> cache, fetched |-> <<>>]
    ELSE IF docs[path].ok
    THEN [content |-> docs[path].text,
          cache |-> [r \in DOMAIN cache \cup {path} |->
                        IF r = path THEN docs[path].text ELSE cache[r]],
          fetched |-> <<path>>]
    ELSE [content |-> EmptyStr, cache |-> cache, fetched |-> <<path>>]

\* HasValidId without the test of the id
HasValidId_Always(plugin) == TRUE

\* The guard of the store in the loop body: `if plugin.id`
HasValidId(plugin) == plugin.id # EmptyStr

\* One iteration of the loop of refresh_cache over plugins_data: a record
\* that fails to parse raises before anything is fetched or stored, and the
\* handler of the loop body goes on to the next record.
RefreshRecord(store, cache, rec, docs) ==
    IF ~rec.wellformed
    THEN [plugins |-> store, cache |-> cache, fetched |-> <<>>]
    ELSE LET f == fetch_science_description(cache, rec.science_description, docs)
             plugin == PluginMetadata(rec, f.content)
         IN [plugins |-> IF HasValidId(plugin) THEN DictSet(store, plugin.id, plugin)
                         ELSE store,
             cache |-> f.cache,
             fetched |-> f.fetched]

\* RefreshLoop whose first malformed record ends the loop
RECURSIVE RefreshLoop_Aborting(_, _, _, _)
RefreshLoop_Aborting(store, cache, recs, docs) ==
    IF recs = <<>> \/ ~Head(recs).wellformed
    THEN [plugins |-> store, cache |-> cache, fetched |-> <<>>]
    ELSE LET one == RefreshRecord(store, cache, Head(recs), docs)
             rest == RefreshLoop_Aborting(one.plugins, one.cache, Tail(recs), docs)
         IN [plugins |-> rest.plugins, cache |-> rest.cache,
             fetched |-> one.fetched \o rest.fetched]

\* The loop of refresh_cache over plugins_data.
RECURSIVE RefreshLoop(_, _, _, _)
RefreshLoop(store, cache, recs, docs) ==
    IF recs = <<>>
    THEN [plugins |-> store, cache |-> cache, fetched |-> <<>>]
    ELSE LET one == RefreshRecord(store, cache, Head(recs), docs)
             rest == RefreshLoop(one.plugins, one.cache, Tail(recs), docs)
         IN [plugins |-> rest.plugins, cache |-> rest.cache,
             fetched |-> one.fetched \o rest.fetched]

\* refresh_cache that iterates over the body itself, a bare JSON array
refresh_cache_BareArray(store, cache, resp) ==
    IF resp.kind = "array"
    THEN RefreshLoop(store, cache, resp.data, resp.docs)
    ELSE [plugins |-> store, cache |-> cache, fetched |-> <<>>]

\* refresh_cache that empties the dict when the catalog GET fails
refresh_cache_Wiping(store, cache, resp) ==
    IF resp.kind = "object"
    THEN RefreshLoop(store, cache, resp.data, resp.docs)
    ELSE [plugins |-> EmptyDict, cache |-> cache, fetched |-> <<>>]

\* PluginRegistry.refresh_cache, the whole call: only a 200 answer whose
\* JSON body is an object reaches the loop; an exception of the GET, another
\* status, or a body without .get() leaves through the outer handler.
refresh_cache(store, cache, resp) ==
    IF resp.kind = "object"
    THEN RefreshLoop(store, cache, resp.data, resp.docs)
    ELSE [plugins |-> store, cache |-> cache, fetched |-> <<>>]

(***************************************************************************)
(* The plugin registry: relevance scoring and the read operations.         *)
(***************************************************************************)

\* category_keywords of search_plugins, in the order of the dict
category_keywords ==
    <<[category |-> "camera",
       keywords |-> <<w_camera, w_image, w_video, w_ptz, w_pan, w_tilt, w_zoom>>],
      [category |-> "audio",
       keywords |-> <<w_audio, w_sound, w_microphone, w_bird, w_noise>>],
      [category |-> "detection",
       keywords |-> <<w_detect, w_yolo, w_object, w_recognition, w_ai, w_ml>>],
      [category |-> "environmental",
       keywords |-> <<w_temperature, w_humidity, w_pressure, w_weather>>],
      [category |-> "movement",
       keywords |-> <<w_motion, w_tracking, w_movement>>]>>

\* any(kw in text for kw in keywords)
AnyKeywordIn(keywords, text) == \E i \in 1..Len(keywords) : Contains(keywords[i], text)

Bonus(cond, points) == IF cond THEN points ELSE 0

\* the loop `for word in query_words: if word in search_text: score += 10`
RECURSIVE WordScore(_, _)
WordScore(query_words, search_text) ==
    IF query_words = <<>> THEN 0
    ELSE Bonus(Contains(query_words[1], search_text), 10)
         + WordScore(Tail(query_words), search_text)

\* the loop over category_keywords.items()
RECURSIVE CategoryScore(_, _, _)
CategoryScore(cats, query_lower, search_text) ==
    IF cats = <<>> THEN 0
    ELSE Bonus(AnyKeywordIn(cats[1].keywords, query_lower)
               /\ AnyKeywordIn(cats[1].keywords, search_text), 20)
         + CategoryScore(Tail(cats), query_lower, search_text)

\* Score whose partial name match is an `elif` of the exact name match
Score_ElifPartialName(plugin, query) ==
    LET query_lower == Lower(query)
        query_words == SplitWords(query_lower)
        search_text == Lower(get_search_text(plugin))
    IN (IF query_lower = Lower(plugin.name) THEN 100
        ELSE Bonus(Contains(query_lower, Lower(plugin.name)), 50))
       + Bonus(Contains(query_lower, Lower(plugin.description)), 30)
       + Bonus(plugin.keywords # EmptyStr
               /\ Contains(query_lower, Lower(plugin.keywords)), 40)
       + Bonus(plugin.science_description_content # EmptyStr
               /\ Contains(query_lower, Lower(plugin.science_description_content)), 25)
       + WordScore(query_words, search_text)
       + CategoryScore(category_keywords, query_lower, search_text)

\* Score whose keywords bonus asks for the query to be the whole keywords
Score_KeywordsEqual(plugin, query) ==
    LET query_lower == Lower(query)
        query_words == SplitWords(query_lower)
        search_text == Lower(get_search_text(plugin))
    IN Bonus(query_lower = Lower(plugin.name), 100)
       + Bonus(Contains(query_lower, Lower(plugin.name)), 50)
       + Bonus(Contains(query_lower, Lower(plugin.description)), 30)
       + Bonus(plugin.keywords # EmptyStr /\ query_lower = Lower(plugin.keywords), 40)
       + Bonus(plugin.science_description_content # EmptyStr
               /\ Contains(query_lower, Lower(plugin.science_description_content)), 25)
       + WordScore(query_words, search_text)
       + CategoryScore(category_keywords, query_lower, search_text)

\* The score search_plugins gives one plugin (body of its loop).
Score(plugin, query) ==
    LET query_lower == Lower(query)
        query_words == SplitWords(query_lower)
        search_text == Lower(get_search_text(plugin))
    IN Bonus(query_lower = Lower(plugin.name), 100)
       + Bonus(Contains(query_lower, Lower(plugin.name)), 50)
       + Bonus(Contains(query_lower, Lower(plugin.description)), 30)
       + Bonus(plugin.keywords # EmptyStr
               /\ Contains(query_lower, Lower(plugin.keywords)), 40)
       + Bonus(plugin.science_description_content # EmptyStr
               /\ Contains(query_lower, Lower(plugin.science_description_content)), 25)
       + WordScore(query_words, search_text)
       + CategoryScore(category_keywords, query_lower, search_text)

\* scored_plugins: the (plugin, score) pairs with score > 0, in dict order
RECURSIVE ScoredPlugins(_, _)
ScoredPlugins(values, query) ==
    IF values = <<>> THEN <<>>
    ELSE LET sc == Score(values[1], query)
         IN (IF sc > 0 THEN <<[plugin |-> values[1], score |-> sc]>> ELSE <<>>)
            \o ScoredPlugins(Tail(values), query)

\* InsertByScore of a sort that is not stable
RECURSIVE InsertByScore_Unstable(_, _)
InsertByScore_Unstable(sorted, x) ==
    IF sorted = <<>> THEN <<x>>
    ELSE IF sorted[1].score > x.score
    THEN <<sorted[1]>> \o InsertByScore_Unstable(Tail(sorted), x)
    ELSE <<x>> \o sorted

\* where list.sort(key=score, reverse=True) puts x among the already sorted:
\* after every element that scores at least as much (the sort is stable)
RECURSIVE InsertByScore(_, _)
InsertByScore(sorted, x) ==
    IF sorted = <<>> THEN <<x>>
    ELSE IF sorted[1].score >= x.score
    THEN <<sorted[1]>> \o InsertByScore(Tail(sorted), x)
    ELSE <<x>> \o sorted

\* scored_plugins.sort(key=lambda x: x[1], reverse=True)
RECURSIVE SortByScore(_)
SortByScore(scored) ==
    IF scored = <<>> THEN <<>>
    ELSE InsertByScore(SortByScore(SubSeq(scored, 1, Len(scored) - 1)),
                       scored[Len(scored)])

\* the slice s[:n]
SliceTo(s, n) ==
    IF n >= 0
    THEN SubSeq(s, 1, IF n < Len(s) THEN n ELSE Len(s))
    ELSE SubSeq(s, 1, IF Len(s) + n > 0 THEN Len(s) + n ELSE 0)

\* PluginRegistry.search_plugins
search_plugins(store, query, max_results) ==
    LET top == SliceTo(SortByScore(ScoredPlugins(DictValues(store), query)), max_results)
    IN [i \in 1..Len(top) |-> top[i].plugin]

\* PluginRegistry.get_plugin_by_id: the plugin, or nothing (None)
get_plugin_by_id(store, plugin_id) ==
    IF DictHas(store, plugin_id) THEN <<DictGet(store, plugin_id)>> ELSE <<>>

\* PluginRegistry.get_plugins_by_type
RECURSIVE PluginsOfType(_, _)
PluginsOfType(values, plugin_type) ==
    IF values = <<>> THEN <<>>
    ELSE (IF Contains(Lower(plugin_type), Lower(values[1].keywords))
             /\ values[1].keywords # EmptyStr
          THEN <<values[1]>> ELSE <<>>)
         \o PluginsOfType(Tail(values), plugin_type)

get_plugins_by_type(store, plugin_type) == PluginsOfType(DictValues(store), plugin_type)

(***************************************************************************)
(* Spec: the registry, one action per public operation.                    *)
(***************************************************************************)
EmptyCache == <<>>

NoResp == [kind |-> "none", data |-> <<>>, docs |-> NoDocs]

Idle == [op |-> "none", resp |-> NoResp, pre |-> EmptyDict, precache |-> EmptyCache,
         fetched |-> <<>>, query |-> EmptyStr, max_results |-> 0, result |-> <<>>]

NoCall == [tool |-> "none"]

Queries == {w_ptz, w_PTZ, w_rain, w_zzz, w_ptz \o SP \o w_ai, EmptyStr}

PluginIds == {id_a, id_b, EmptyStr}

PluginTypes == {w_ai, w_zzz}

\* PluginRegistry.__init__: two empty dicts, then refresh_cache()
Init ==
    \E resp \in Responses :
        LET r == refresh_cache(EmptyDict, EmptyCache, resp)
        IN /\ plugins = r.plugins
           /\ science_description_cache = r.cache
           /\ last = [Idle EXCEPT !.op = "refresh", !.resp = resp, !.fetched = r.fetched]
           /\ rpc = "idle"
           /\ rstate = <<>>
           /\ observed = <<>>
           /\ call = NoCall

\* refresh_cache()
Refresh ==
    \E resp \in Responses :
        LET r == refresh_cache(plugins, science_description_cache, resp)
        IN /\ plugins' = r.plugins
           /\ science_description_cache' = r.cache
           /\ last' = [Idle EXCEPT !.op = "refresh", !.resp = resp, !.pre = plugins,
                                   !.precache = science_description_cache,
                                   !.fetched = r.fetched]
           /\ UNCHANGED <<rpc, rstate, observed, call>>

\* search_plugins(query, max_results)
Search ==
    \E q \in Queries, k \in 0..MaxResultsBound :
        /\ last' = [Idle EXCEPT !.op = "search", !.query = q, !.max_results = k,
                                !.result = search_plugins(plugins, q, k)]
        /\ UNCHANGED <<plugins, science_description_cache, rpc, rstate, observed, call>>

\* get_plugin_by_id(plugin_id)
GetById ==
    \E k \in PluginIds :
        /\ last' = [Idle EXCEPT !.op = "get_by_id", !.query = k,
                                !.result = get_plugin_by_id(plugins, k)]
        /\ UNCHANGED <<plugins, science_description_cache, rpc, rstate, observed, call>>

\* get_plugins_by_type(plugin_type)
GetByType ==
    \E t \in PluginTypes :
        /\ last' = [Idle EXCEPT !.op = "get_by_type", !.query = t,
                                !.result = get_plugins_by_type(plugins, t)]
        /\ UNCHANGED <<plugins, science_description_cache, rpc, rstate, observed, call>>

Next == Refresh \/ Search \/ GetById \/ GetByType

Spec == Init /\ [][Next]_vars

(***************************************************************************)
(* Properties of the registry (Spec).                                      *)
(***************************************************************************)
RefreshDone == last.op = "refresh"

CatalogFetchFailed == last.resp.kind \in {"exception", "non200"}

CatalogParsed == last.resp.kind = "object"

\* the ids of the records of a batch that parse and carry a non-empty id
StorableIds(data) ==
    {data[i].id : i \in {j \in 1..Len(data) : data[j].wellformed /\ data[j].id # EmptyStr}}

KeySet(d) == Range(d.keys)

\* C2: when the catalog GET of refresh_cache raises or answers another status
\* than 200, the dict after the call equals the dict before it.
C2_FailedFetchKeepsStore ==
    (RefreshDone /\ CatalogFetchFailed) => plugins = last.pre

C2_Witness ==
    /\ RefreshDone /\ CatalogFetchFailed
    /\ Len(last.pre.keys) = 2
    /\ plugins = last.pre

\* C3 (as claimed): after a refresh whose catalog GET succeeds, the keys of the
\* dict are exactly the non-empty ids of the records of that answer.
C3_StoreIsExactlyTheFetch ==
    (RefreshDone /\ CatalogParsed) => KeySet(plugins) = StorableIds(last.resp.data)

\* C4: every key is non-empty and is the id of the plugin stored under it,
\* and no id has two entries.
C4_KeysAreIds ==
    /\ Len(plugins.keys) = Len(plugins.val)
    /\ \A i \in 1..Len(plugins.keys) :
          /\ plugins.keys[i] # EmptyStr
          /\ plugins.val[i].id = plugins.keys[i]
    /\ \A i, j \in 1..Len(plugins.keys) : plugins.keys[i] = plugins.keys[j] => i = j
    /\ (RefreshDone /\ CatalogParsed) =>
          \A i \in 1..Len(last.resp.data) :
             (last.resp.data[i].wellformed /\ last.resp.data[i].id # EmptyStr) =>
                Cardinality({k \in 1..Len(plugins.keys) :
                                plugins.keys[k] = last.resp.data[i].id}) = 1

C4_Witness ==
    /\ RefreshDone /\ CatalogParsed
    /\ Len(last.resp.data) = 2
    /\ last.resp.data[1].wellformed /\ last.resp.data[1].id = EmptyStr
    /\ last.resp.data[2].wellformed /\ last.resp.data[2].id # EmptyStr
    /\ DictHas(last.pre, last.resp.data[2].id)
    /\ Len(plugins.keys) = 2

\* the last well-formed record of the batch that carries this id
LastRecordWithId(data, id) ==
    data[CHOOSE i \in 1..Len(data) :
            /\ data[i].wellformed /\ data[i].id = id
            /\ \A j \in (i + 1)..Len(data) : ~(data[j].wellformed /\ data[j].id = id)]

\* the batch without its malformed records
RECURSIVE WellFormedOnly(_)
WellFormedOnly(data) ==
    IF data = <<>> THEN <<>>
    ELSE (IF data[1].wellformed THEN <<data[1]>> ELSE <<>>) \o WellFormedOnly(Tail(data))

\* C5: a record that fails to parse is skipped (the dict is what the batch
\* without it gives) and every well-formed record of the batch with a
\* non-empty id is stored, wherever the malformed record stands.
C5_MalformedRecordSkipped ==
    (RefreshDone /\ CatalogParsed) =>
        /\ \A id \in StorableIds(last.resp.data) :
              /\ DictHas(plugins, id)
              /\ LET rec == LastRecordWithId(last.resp.data, id)
                     p == DictGet(plugins, id)
                 IN /\ p.name = rec.name
                    /\ p.description = rec.description
                    /\ p.keywords = rec.keywords
                    /\ p.science_description = rec.science_description
        /\ plugins = refresh_cache(last.pre, last.precache,
                                   [last.resp EXCEPT !.data = WellFormedOnly(@)]).plugins

C5_Witness ==
    /\ RefreshDone /\ CatalogParsed
    /\ Len(last.resp.data) = 2
    /\ ~last.resp.data[1].wellformed
    /\ last.resp.data[2].wellformed /\ last.resp.data[2].id # EmptyStr
    /\ ~DictHas(last.pre, last.resp.data[2].id)
    /\ DictHas(plugins, last.resp.data[2].id)

\* C6: a refresh_cache that follows a refresh_cache with the same catalog
\* answer and the same document answers leaves the dict as the first left it.
C6_RefreshIdempotent ==
    [][(RefreshDone /\ last'.op = "refresh" /\ last'.resp = last.resp)
          => plugins' = plugins]_vars

C6_Witness ==
    /\ RefreshDone /\ CatalogParsed
    /\ last.pre = plugins
    /\ last.precache = science_description_cache
    /\ ref_x \in DOMAIN science_description_cache
    /\ last.fetched = <<>>
    /\ \E i \in 1..Len(last.resp.data) :
          /\ last.resp.data[i] = rec_a
          /\ last.resp.docs[ref_x].ok
    /\ Len(plugins.keys) = 2

\* C10: search_plugins returns min(max_results, number of plugins with a
\* positive score) plugins, each with a positive score, by descending score,
\* equal scores in the order of the dict, and no plugin left out outranks one
\* that is returned.
PositiveIndices(q) == {i \in 1..Len(plugins.val) : Score(plugins.val[i], q) > 0}

Min(a, b) == IF a < b THEN a ELSE b

\* p comes before r in the ranking: higher score, or equal score and earlier in the dict
Outranks(p, r, q) ==
    \/ Score(p, q) > Score(r, q)
    \/ /\ Score(p, q) = Score(r, q)
       /\ DictIndex(plugins, p.id) < DictIndex(plugins, r.id)

C10_SearchTopK ==
    last.op = "search" =>
        LET q == last.query
            res == last.result
        IN /\ Len(res) = Min(last.max_results, Cardinality(PositiveIndices(q)))
           /\ \A i \in 1..Len(res) :
                 /\ DictHas(plugins, res[i].id)
                 /\ DictGet(plugins, res[i].id) = res[i]
                 /\ Score(res[i], q) > 0
           /\ \A i, j \in 1..Len(res) : i < j => Outranks(res[i], res[j], q)
           /\ \A k \in PositiveIndices(q) :
                 (\A i \in 1..Len(res) : res[i] # plugins.val[k]) =>
                    \A i \in 1..Len(res) : Outranks(res[i], plugins.val[k], q)

C10_Witness ==
    /\ last.op = "search"
    /\ last.max_results = 1
    /\ Len(last.result) = 1
    /\ Cardinality(PositiveIndices(last.query)) = 2
    /\ Score(plugins.val[1], last.query) = Score(plugins.val[2], last.query)
    /\ last.result[1] = plugins.val[1]

(***************************************************************************)
(* SpecConc: one refresh_cache call taken step by step (its network calls  *)
(* are where other requests run), with readers of the registry in between. *)
(***************************************************************************)
NoRefresh == [resp |-> NoResp, i |-> 0, pre |-> EmptyDict, precache |-> EmptyCache]

NotObserved == [op |-> "none", inflight |-> FALSE, store |-> EmptyDict,
                pre |-> EmptyDict, post |-> EmptyDict, result |-> <<>>]

\* the catalog answers of SpecConc: every kind, over a smaller record pool
ConcResponses ==
    {r \in Responses : \A i \in 1..Len(r.data) : r.data[i] \in {rec_a, rec_b, rec_bad}}

ConcQueries == {w_ptz, w_zzz}

InitConc ==
    \E resp \in ConcResponses :
        LET r == refresh_cache(EmptyDict, EmptyCache, resp)
        IN /\ plugins = r.plugins
           /\ science_description_cache = r.cache
           /\ last = Idle
           /\ rpc = "idle"
           /\ rstate = NoRefresh
           /\ observed = NotObserved
           /\ call = NoCall

\* refresh_cache up to the loop: the catalog GET and response.json().get("data")
BeginRefresh ==
    /\ rpc = "idle"
    /\ \E resp \in ConcResponses :
          /\ rpc' = IF resp.kind = "object" THEN "loop" ELSE "idle"
          /\ rstate' = IF resp.kind = "object"
                       THEN [resp |-> resp, i |-> 1, pre |-> plugins,
                             precache |-> science_description_cache]
                       ELSE NoRefresh
    /\ UNCHANGED <<plugins, science_description_cache, last, observed, call>>

\* the record the loop is at
CurrentRecord == rstate.resp.data[rstate.i]

\* whether the loop body has to GET the document of the record
NeedsFetch(rec) ==
    /\ rec.wellformed
    /\ rec.science_description # EmptyStr
    /\ rec.science_description \notin DOMAIN science_description_cache

\* one iteration of the loop, up to the document GET when one is needed
RefreshStep ==
    /\ rpc = "loop"
    /\ rstate.i <= Len(rstate.resp.data)
    /\ LET r == RefreshRecord(plugins, science_description_cache, CurrentRecord,
                              rstate.resp.docs)
       IN IF NeedsFetch(CurrentRecord)
          THEN /\ rpc' = "fetching"
               /\ UNCHANGED <<plugins, science_description_cache, rstate>>
          ELSE /\ plugins' = r.plugins
               /\ science_description_cache' = r.cache
               /\ rstate' = [rstate EXCEPT !.i = @ + 1]
               /\ rpc' = "loop"
    /\ UNCHANGED <<last, observed, call>>

\* the document GET answers: the rest of the iteration
FetchReturn ==
    /\ rpc = "fetching"
    /\ LET r == RefreshRecord(plugins, science_description_cache, CurrentRecord,
                              rstate.resp.docs)
       IN /\ plugins' = r.plugins
          /\ science_description_cache' = r.cache
    /\ rstate' = [rstate EXCEPT !.i = @ + 1]
    /\ rpc' = "loop"
    /\ UNCHANGED <<last, observed, call>>

\* the loop is over: refresh_cache returns
EndRefresh ==
    /\ rpc = "loop"
    /\ rstate.i > Len(rstate.resp.data)
    /\ rpc' = "idle"
    /\ rstate' = NoRefresh
    /\ UNCHANGED <<plugins, science_description_cache, last, observed, call>>

\* what a reader sees, with the dict before the in-flight refresh_cache and
\* the dict that refresh_cache leaves when it has run to its end
Observation(op, result) ==
    [op |-> op,
     inflight |-> rpc # "idle",
     store |-> plugins,
     pre |-> IF rpc # "idle" THEN rstate.pre ELSE plugins,
     post |-> IF rpc # "idle"
              THEN refresh_cache(rstate.pre, rstate.precache, rstate.resp).plugins
              ELSE plugins,
     result |-> result]

\* search_plugins(query) of another request
ConcSearch ==
    /\ \E q \in ConcQueries :
          observed' = Observation("search", search_plugins(plugins, q, MaxResultsBound))
    /\ UNCHANGED <<plugins, science_description_cache, last, rpc, rstate, call>>

\* get_plugin_by_id(plugin_id) of another request
ConcGetById ==
    /\ \E k \in PluginIds :
          observed' = Observation("get_by_id", get_plugin_by_id(plugins, k))
    /\ UNCHANGED <<plugins, science_description_cache, last, rpc, rstate, call>>

NextConc ==
    BeginRefresh \/ RefreshStep \/ FetchReturn \/ EndRefresh \/ ConcSearch \/ ConcGetById

SpecConc == InitConc /\ [][NextConc]_vars

\* C1 (as claimed): a reader that runs while a refresh_cache is in flight sees
\* the complete dict of before the refresh or the complete dict of after it.
C1_ReadersSeeCompleteStore ==
    observed.inflight => (observed.store = observed.pre \/ observed.store = observed.post)

(***************************************************************************)
(* The measurement query tools and the time-series contract.               *)
(***************************************************************************)
MaxRows == 3             \* rows of a non-empty time-series answer in the model

\* TimeRange(value=...), as a string (models.py validator and __str__)
TimeRange(v) ==
    IF v = EmptyStr \/ Strip(v) = EmptyStr
       \/ Lower(v) \in {w_latest, w_recent, w_current, w_now}
    THEN w_30m
    ELSE v

\* NodeID(value=...), as a string (models.py validator and __str__)
NodeID(v) ==
    IF v = EmptyStr THEN EmptyStr
    ELSE LET clean_id == Strip(Upper(v))
         IN IF clean_id # EmptyStr /\ ~StartsWith(clean_id, <<"W">>)
            THEN <<"W">> \o clean_id
            ELSE clean_id

\* a dict with one more entry, and a dict without one key
DSet(d, k, v) == [x \in DOMAIN d \cup {k} |-> IF x = k THEN v ELSE d[x]]

DPop(d, k) == [x \in DOMAIN d \ {k} |-> d[x]]

EmptyFilter == <<>>

\* the methods of the class SageDataService that sage_mcp.py defines (and
\* instantiates as data_service); any other attribute raises AttributeError
SageDataServiceAttrs ==
    {"query_data", "query_plugin_data", "query_image_data", "query_cloud_data",
     "query_node_data", "query_environmental_data", "query_job_data"}

\* An answer of sage_data_client.query: it raises, or it returns a table.
Raises == [raises |-> TRUE, rows |-> 0]

Table(n) == [raises |-> FALSE, rows |-> n]

Outcomes == {Raises, Table(0), Table(MaxRows)}

\* DefaultVsn of a query_data that leaves the caller's dict as it is
DefaultVsn_Missing(filter_params) == filter_params

\* the filter entry query_data adds when the caller gave no vsn
DefaultVsn(filter_params) ==
    IF "vsn" \notin DOMAIN filter_params
    THEN DSet(filter_params, "vsn", STAR)
    ELSE filter_params

\* SageDataService.query_data: the query it issues (the caller's dict, which
\* it completes in place), and the rows of the table it returns
query_data(window, filter_params, outcome) ==
    LET f == DefaultVsn(filter_params)
    IN [issued |-> <<[window |-> window, filter |-> f]>>,
        filter |-> f,
        rows |-> IF outcome.raises THEN 0 ELSE outcome.rows]

\* EnsureWildcards that wraps without looking at the fragment
EnsureWildcards_Always(part) == WILD \o part \o WILD

\* a fragment with the wildcard marker at both ends
EnsureWildcards(part) ==
    LET p1 == IF ~StartsWith(part, WILD) THEN WILD \o part ELSE part
    IN IF ~EndsWith(p1, WILD) THEN p1 \o WILD ELSE p1

MapEnsureWildcardsStripped(parts) ==
    [i \in 1..Len(parts) |-> EnsureWildcards(Strip(parts[i]))]

\* search_measurements: filter_params["plugin"]
MeasurementPluginPattern(measurement_pattern) ==
    IF Contains(PIPE, measurement_pattern)
    THEN Join(MapEnsureWildcardsStripped(SplitOn(measurement_pattern, "|", EmptyStr)), PIPE)
    ELSE EnsureWildcards(measurement_pattern)

\* get_image_data: filter_params["plugin"]
ImagePluginPattern(plugin_pattern) ==
    IF Contains(PIPE, plugin_pattern)
    THEN Join(MapEnsureWildcardsStripped(SplitOn(plugin_pattern, "|", EmptyStr)), PIPE)
    ELSE EnsureWildcards(plugin_pattern)

\* the answer of a tool
ToolError == [kind |-> "error", rows |-> 0]

NoData == [kind |-> "nodata", rows |-> 0]

Formatted(n) == [kind |-> "table", rows |-> n]

\* the formatting of a non-empty table by search_measurements and
\* query_job_data, which calls data_service._safe_timestamp_format per row
FormatTable(n) ==
    IF "_safe_timestamp_format" \in SageDataServiceAttrs THEN Formatted(n) ELSE ToolError

\* the tool search_measurements: the queries it issues and its answer
search_measurements(measurement_pattern, node_id, time_range, outcomes) ==
    LET validated_time == TimeRange(time_range)
        plugin_only == DSet(EmptyFilter, "plugin", MeasurementPluginPattern(measurement_pattern))
        filter_params == IF node_id # EmptyStr
                         THEN DSet(plugin_only, "vsn", NodeID(node_id))
                         ELSE plugin_only
    IN IF "_parse_time_range" \notin SageDataServiceAttrs
       THEN [queries |-> <<>>, built |-> filter_params, result |-> ToolError]
       ELSE LET q1 == query_data(validated_time, filter_params, outcomes[1])
            IN IF q1.rows = 0
               THEN LET name_filter == DSet(DPop(q1.filter, "plugin"), "name",
                                            q1.filter["plugin"])
                        q2 == query_data(validated_time, name_filter, outcomes[2])
                    IN [queries |-> q1.issued \o q2.issued, built |-> filter_params,
                        result |-> IF q2.rows = 0 THEN NoData ELSE FormatTable(q2.rows)]
               ELSE [queries |-> q1.issued, built |-> filter_params,
                     result |-> FormatTable(q1.rows)]

Wrap(w) == WILD \o w \o WILD

\* job_to_plugin_patterns of query_job_data, in the order of the dict
job_to_plugin_patterns ==
    <<[keyword |-> w_audio, patterns |-> <<Wrap(w_audio), Wrap(<<"s", "a", "g", "e", "-">> \o w_audio)>>],
      [keyword |-> w_air \o DASH \o w_quality,
       patterns |-> <<Wrap(w_air \o DASH \o w_quality), Wrap(w_air \o w_quality)>>],
      [keyword |-> w_cloud, patterns |-> <<Wrap(w_cloud)>>],
      [keyword |-> w_image, patterns |-> <<Wrap(w_image), Wrap(w_sampler)>>],
      [keyword |-> w_camera, patterns |-> <<Wrap(w_camera), Wrap(w_image \o w_sampler)>>],
      [keyword |-> w_sound, patterns |-> <<Wrap(w_sound), Wrap(w_audio)>>],
      [keyword |-> w_weather, patterns |-> <<Wrap(w_weather), Wrap(w_wxt)>>],
      [keyword |-> w_rain, patterns |-> <<Wrap(w_rain), Wrap(w_rain \o w_gauge)>>],
      [keyword |-> w_temperature, patterns |-> <<Wrap(w_temperature), Wrap(w_temp)>>],
      [keyword |-> w_motion, patterns |-> <<Wrap(w_motion)>>],
      [keyword |-> w_ptz, patterns |-> <<Wrap(w_ptz)>>],
      [keyword |-> w_yolo, patterns |-> <<Wrap(w_yolo)>>],
      [keyword |-> w_bird, patterns |-> <<Wrap(w_bird), Wrap(w_avian)>>],
      [keyword |-> w_mobotix, patterns |-> <<Wrap(w_mobotix)>>]>>

\* the loop over job_to_plugin_patterns.items()
RECURSIVE KeywordPatterns(_, _)
KeywordPatterns(table, job_lower) ==
    IF table = <<>> THEN <<>>
    ELSE (IF Contains(table[1].keyword, job_lower) THEN table[1].patterns ELSE <<>>)
         \o KeywordPatterns(Tail(table), job_lower)

\* unique_patterns: duplicates removed, order kept
RECURSIVE Unique(_, _)
Unique(patterns, seen) ==
    IF patterns = <<>> THEN seen
    ELSE Unique(Tail(patterns),
                IF patterns[1] \in Range(seen) THEN seen ELSE Append(seen, patterns[1]))

\* [part.strip() for part in parts if part.strip()]
RECURSIVE StrippedNonEmpty(_)
StrippedNonEmpty(parts) ==
    IF parts = <<>> THEN <<>>
    ELSE (IF Strip(parts[1]) # EmptyStr THEN <<Strip(parts[1])>> ELSE <<>>)
         \o StrippedNonEmpty(Tail(parts))

\* query_job_data: filter_params["plugin"] of the first query
JobPluginPattern(job_name) ==
    LET plugin_patterns ==
            (IF ~StartsWith(job_name, WILD) THEN <<Wrap(job_name)>> ELSE <<>>)
            \o KeywordPatterns(job_to_plugin_patterns, Lower(job_name))
    IN IF plugin_patterns # <<>>
       THEN Join(Unique(plugin_patterns, <<>>), PIPE)
       ELSE IF Contains(PIPE, job_name)
       THEN Join(StrippedNonEmpty(SplitOn(job_name, "|", EmptyStr)), PIPE)
       ELSE EnsureWildcards(job_name)

\* the characters of the model's alphabet that \w does not match
NonWordChars == {" ", "-", "|", ".", "*"}

\* re.findall(r'\w+', s)
RECURSIVE FindWords(_, _)
FindWords(s, cur) ==
    IF s = <<>> THEN (IF cur = EmptyStr THEN <<>> ELSE <<cur>>)
    ELSE IF s[1] \in NonWordChars
    THEN (IF cur = EmptyStr THEN <<>> ELSE <<cur>>) \o FindWords(Tail(s), EmptyStr)
    ELSE FindWords(Tail(s), Append(cur, s[1]))

\* broader_patterns: `.*word.*` for the words longer than 2 characters
RECURSIVE BroaderPatterns(_)
BroaderPatterns(words) ==
    IF words = <<>> THEN <<>>
    ELSE (IF Len(words[1]) > 2 THEN <<Wrap(words[1])>> ELSE <<>>)
         \o BroaderPatterns(Tail(words))

\* the tool query_job_data: the queries it issues and its answer
query_job_data(job_name, node_id, time_range, data_type, outcomes) ==
    LET validated_time == TimeRange(time_range)
        plugin_only == DSet(EmptyFilter, "plugin", JobPluginPattern(job_name))
        with_node == IF node_id # EmptyStr
                     THEN DSet(plugin_only, "vsn", NodeID(node_id))
                     ELSE plugin_only
        filter_params == IF data_type # w_upload
                         THEN DSet(with_node, "name", data_type)
                         ELSE with_node
    IN IF "_parse_time_range" \notin SageDataServiceAttrs
       THEN [queries |-> <<>>, built |-> filter_params, result |-> ToolError]
       ELSE LET q1 == query_data(validated_time, filter_params, outcomes[1])
                broader_patterns == BroaderPatterns(FindWords(Lower(job_name), EmptyStr))
            IN IF q1.rows = 0
               THEN IF broader_patterns # <<>>
                    THEN LET q2 == query_data(validated_time,
                                              DSet(q1.filter, "plugin",
                                                   Join(broader_patterns, PIPE)),
                                              outcomes[2])
                         IN [queries |-> q1.issued \o q2.issued, built |-> filter_params,
                             result |-> IF q2.rows = 0 THEN NoData
                                        ELSE FormatTable(q2.rows)]
                    ELSE [queries |-> q1.issued, built |-> filter_params, result |-> NoData]
               ELSE [queries |-> q1.issued, built |-> filter_params,
                     result |-> FormatTable(q1.rows)]

\* SageDataService.query_plugin_data (parse_time_range of utils, then query_data)
data_service_query_plugin_data(plugin, time_range, node_id, outcome) ==
    LET plugin_only == DSet(EmptyFilter, "plugin", plugin)
        filter_params == IF node_id # EmptyStr
                         THEN DSet(plugin_only, "vsn", node_id)
                         ELSE plugin_only
        q == query_data(time_range, filter_params, outcome)
    IN [queries |-> q.issued, built |-> filter_params,
        result |-> [kind |-> "table", rows |-> q.rows]]

\* PluginQueryService.query_plugin_data
plugin_query_plugin_data(store, plugin_id, nodes, time_range, outcome) ==
    LET found == get_plugin_by_id(store, plugin_id)
    IN IF found = <<>>
       THEN [queries |-> <<>>, built |-> EmptyFilter,
             result |-> [kind |-> "table", rows |-> 0]]
       ELSE LET filter_params ==
                    DSet(DSet(EmptyFilter, "plugin", Wrap(found[1].name)), "vsn",
                         IF nodes # <<>> THEN Join(nodes, PIPE) ELSE STAR)
            IN [queries |-> <<[window |-> time_range, filter |-> filter_params]>>,
                built |-> filter_params,
                result |-> [kind |-> "table",
                            rows |-> IF outcome.raises THEN 0 ELSE outcome.rows]]

(***************************************************************************)
(* SpecQuery: one action per query tool; the time-series store answers     *)
(* each query of a call with a table or an exception.                      *)
(***************************************************************************)
node_W1 == <<"W", "1">>
node_1 == <<"1">>

Literals == {w_rain, WILD \o w_rain, w_rain \o PIPE \o w_ptz, w_ab}

NodeArgs == {EmptyStr, node_W1, node_1}

TimeArgs == {w_1h, EmptyStr}

DataTypeArgs == {w_upload, w_temp}

NodeLists == {<<>>, <<node_W1>>, <<node_W1, node_1>>}

\* the answers to the queries of one call, in the order the call issues them
OutcomeSeqs == [1..3 -> Outcomes]

InitQuery ==
    LET r == refresh_cache(EmptyDict, EmptyCache,
                           [kind |-> "object", data |-> <<rec_a, rec_b>>,
                            docs |-> [x \in Refs |-> DocOk(doc_x)]])
    IN /\ plugins = r.plugins
       /\ science_description_cache = r.cache
       /\ last = Idle
       /\ rpc = "idle"
       /\ rstate = NoRefresh
       /\ observed = NotObserved
       /\ call = NoCall

ToolCall(tool, literal, node_id, nodes, time_range, data_type, outcomes, r) ==
    [tool |-> tool, literal |-> literal, node_id |-> node_id, nodes |-> nodes,
     time_range |-> time_range, data_type |-> data_type, outcomes |-> outcomes,
     queries |-> r.queries, built |-> r.built, result |-> r.result]

\* the tool search_measurements
SearchMeasurements ==
    /\ \E lit \in Literals, n \in NodeArgs, t \in TimeArgs, o \in OutcomeSeqs :
          call' = ToolCall("search_measurements", lit, n, <<>>, t, w_upload, o,
                           search_measurements(lit, n, t, o))
    /\ UNCHANGED <<plugins, science_description_cache, last, rpc, rstate, observed>>

\* the tool query_job_data
QueryJobData ==
    /\ \E lit \in Literals, n \in NodeArgs, dt \in DataTypeArgs, o \in OutcomeSeqs :
          call' = ToolCall("query_job_data", lit, n, <<>>, w_1h, dt, o,
                           query_job_data(lit, n, w_1h, dt, o))
    /\ UNCHANGED <<plugins, science_description_cache, last, rpc, rstate, observed>>

\* data_service.query_plugin_data, as the resource query://{plugin} calls it
DataServiceQueryPluginData ==
    /\ \E lit \in Literals, n \in {EmptyStr, node_W1}, o \in Outcomes :
          call' = ToolCall("data_service.query_plugin_data", lit, n, <<>>, w_30m, w_upload,
                           <<o, Table(0), Table(0)>>,
                           data_service_query_plugin_data(lit, w_30m, n, o))
    /\ UNCHANGED <<plugins, science_description_cache, last, rpc, rstate, observed>>

\* plugin_query_service.query_plugin_data
PluginQueryPluginData ==
    /\ \E id \in PluginIds, ns \in NodeLists, o \in Outcomes :
          call' = ToolCall("plugin_query_service.query_plugin_data", id, EmptyStr, ns, w_1h,
                           w_upload, <<o, Table(0), Table(0)>>,
                           plugin_query_plugin_data(plugins, id, ns, w_1h, o))
    /\ UNCHANGED <<plugins, science_description_cache, last, rpc, rstate, observed>>

NextQuery ==
    SearchMeasurements \/ QueryJobData \/ DataServiceQueryPluginData \/ PluginQueryPluginData

SpecQuery == InitQuery /\ [][NextQuery]_vars

(***************************************************************************)
(* Properties of the query tools (SpecQuery).                              *)
(***************************************************************************)
LadderTools == {"search_measurements", "query_job_data"}

\* the rows of the table the time-series store gives to the i-th query of the call
AnswerRows(i) == IF call.outcomes[i].raises THEN 0 ELSE call.outcomes[i].rows

\* whether the call has a rung k to go to
HasRung(k) ==
    \/ k = 1
    \/ call.tool = "search_measurements"
    \/ BroaderPatterns(FindWords(Lower(call.literal), EmptyStr)) # <<>>

\* C7 (as claimed): the queries of one call go out in rung order, a later one
\* only after every earlier one came back empty, none after the first
\* non-empty table, and that table is the one that is formatted, at the level
\* of its rung (rung 1 empty and rung 2 with 3 rows: level 2, those 3 rows).
C7_LadderStopsAtFirstTable ==
    call.tool \in LadderTools =>
        /\ \A i \in 1..Len(call.queries) : \A j \in 1..(i - 1) : AnswerRows(j) = 0
        /\ \A k \in 1..2 :
              (HasRung(k) /\ AnswerRows(k) > 0 /\ \A j \in 1..(k - 1) : AnswerRows(j) = 0)
                 => /\ Len(call.queries) = k
                    /\ call.result = Formatted(AnswerRows(k))

\* C8 (as claimed): when every query comes back empty, one call issues
\* exactly 3 queries, on the plugin field, on the name field, on the plugin
\* field again, and then reports that nothing was found.
C8_ExhaustionIssuesThreeQueries ==
    (call.tool \in LadderTools /\ \A i \in 1..3 : AnswerRows(i) = 0) =>
        /\ Len(call.queries) = 3
        /\ "plugin" \in DOMAIN call.queries[1].filter
        /\ "name" \in DOMAIN call.queries[2].filter
        /\ "plugin" \in DOMAIN call.queries[3].filter
        /\ call.result = NoData

\* the node constraint of the call as the time-series store has to see it
ExpectedVsn ==
    IF call.tool \in LadderTools
    THEN (IF call.node_id # EmptyStr THEN NodeID(call.node_id) ELSE STAR)
    ELSE IF call.tool = "data_service.query_plugin_data"
    THEN (IF call.node_id # EmptyStr THEN call.node_id ELSE STAR)
    ELSE (IF call.nodes # <<>> THEN Join(call.nodes, PIPE) ELSE STAR)

C21_ExhaustionAnswersNoData ==
    call.tool \in LadderTools =>
        /\ Len(call.queries) >= 1
        /\ (\A i \in 1..3 : AnswerRows(i) = 0) => call.result = NoData

\* C27 (as claimed): when the plugin query of search_measurements comes back
\* empty, the tool issues the name query, whose filter is the filter of the
\* plugin query with the pattern moved from `plugin` to `name`: the same
\* pattern, the same vsn, the same window, and no `plugin` entry.
C27_NameFallbackMovesPattern ==
    (call.tool = "search_measurements" /\ AnswerRows(1) = 0) =>
        /\ Len(call.queries) >= 2
        /\ LET primary == call.queries[1]
               fallback == call.queries[2]
           IN /\ DOMAIN fallback.filter = (DOMAIN primary.filter \ {"plugin"}) \cup {"name"}
              /\ fallback.filter["name"] = primary.filter["plugin"]
              /\ fallback.filter["vsn"] = primary.filter["vsn"]
              /\ fallback.window = primary.window

\* the words of a literal that are longer than 2 characters, each wrapped
LongWordFragments(literal) ==
    LET words == FindWords(literal, EmptyStr)
        long == SelectSeq(words, LAMBDA w : Len(w) > 2)
    IN [i \in 1..Len(long) |-> WILD \o long[i] \o WILD]

\* C28 (as claimed): when the first query of query_job_data comes back empty
\* and the literal has a word longer than 2 characters, the tool issues one
\* more query, whose plugin filter is the `|`-join of `.*w.*` for exactly
\* those words and whose other entries (vsn, name) and window are those of
\* the first query; no call issues a third query.
C28_BroadeningQuery ==
    call.tool = "query_job_data" =>
        /\ Len(call.queries) <= 2
        /\ (AnswerRows(1) = 0 /\ LongWordFragments(call.literal) # <<>>) =>
              /\ Len(call.queries) = 2
              /\ LET primary == call.queries[1]
                     broader == call.queries[2]
                 IN /\ DOMAIN broader.filter = DOMAIN primary.filter
                    /\ broader.filter["plugin"] = Join(LongWordFragments(call.literal), PIPE)
                    /\ \A k \in DOMAIN primary.filter \ {"plugin"} :
                          broader.filter[k] = primary.filter[k]
                    /\ broader.window = primary.window

\* the answers of a call with every exception replaced by an empty table
FailuresAsEmpty(outcomes) ==
    [i \in DOMAIN outcomes |-> IF outcomes[i].raises THEN Table(0) ELSE outcomes[i]]

\* C30 (as claimed): query_data hands its caller an empty table when the
\* time-series call raises; a ladder tool whose first query failed goes on to
\* its next rung, and its queries and its answer are those of the same call
\* with empty tables in the place of the failures.
C30_FailedRungIsEmptyRung ==
    /\ (call.tool = "data_service.query_plugin_data" /\ call.outcomes[1].raises) =>
          /\ Len(call.queries) = 1
          /\ call.result = [kind |-> "table", rows |-> 0]
    /\ (call.tool \in LadderTools /\ call.outcomes[1].raises /\ HasRung(2)) =>
          Len(call.queries) = 2
    /\ call.tool = "search_measurements" =>
          LET r == search_measurements(call.literal, call.node_id, call.time_range,
                                       FailuresAsEmpty(call.outcomes))
          IN call.queries = r.queries /\ call.result = r.result
    /\ call.tool = "query_job_data" =>
          LET r == query_job_data(call.literal, call.node_id, call.time_range,
                                  call.data_type, FailuresAsEmpty(call.outcomes))
          IN call.queries = r.queries /\ call.result = r.result

(***************************************************************************)
(* SpecScore: the relevance score of search_plugins as a function of one   *)
(* descriptor and one query, and of a descriptor with one field extended.  *)
(***************************************************************************)
\* descriptors as refresh_cache builds them from the record pool
ScoreDescriptors ==
    {PluginMetadata(rec_a, doc_x), PluginMetadata(rec_a, EmptyStr),
     PluginMetadata(rec_a2, EmptyStr), PluginMetadata(rec_b, EmptyStr),
     PluginMetadata(rec_noid, doc_x)}

ScoreQueries == Queries \cup {w_yolo, w_ai}

\* the str fields of PluginMetadata that search_plugins reads
TextFields == {"name", "description", "keywords", "science_description_content"}

\* the same descriptor with more text at the end of one field
Extended(plugin, field, suffix) == [plugin EXCEPT ![field] = @ \o suffix]

InitScore ==
    /\ \E p \in ScoreDescriptors, q \in ScoreQueries :
          last = [op |-> "input", plugin |-> p, query |-> q]
    /\ plugins = EmptyDict
    /\ science_description_cache = EmptyCache
    /\ rpc = "idle"
    /\ rstate = NoRefresh
    /\ observed = NotObserved
    /\ call = NoCall

\* the body of the loop of search_plugins for one plugin
ScoreOne ==
    /\ last.op = "input"
    /\ last' = [op |-> "score", plugin |-> last.plugin, query |-> last.query,
                score |-> Score(last.plugin, last.query)]
    /\ UNCHANGED <<plugins, science_description_cache, rpc, rstate, observed, call>>

\* the same query against the descriptor with one field extended
ScoreExtended ==
    /\ last.op = "score"
    /\ \E field \in TextFields, suffix \in {last.query, SP \o w_ai, w_zzz} :
          last' = [op |-> "extend", plugin |-> last.plugin, query |-> last.query,
                   score |-> last.score, field |-> field, suffix |-> suffix,
                   score_after |-> Score(Extended(last.plugin, field, suffix), last.query)]
    /\ UNCHANGED <<plugins, science_description_cache, rpc, rstate, observed, call>>

NextScore == ScoreOne \/ ScoreExtended

SpecScore == InitScore /\ [][NextScore]_vars

\* the indices of the query tokens that occur in a text
TokensFound(tokens, text) == {i \in 1..Len(tokens) : Contains(tokens[i], text)}

\* the categories with a keyword in the query and a keyword in the text
CategoriesHit(query_lower, text) ==
    {i \in 1..Len(category_keywords) :
        /\ AnyKeywordIn(category_keywords[i].keywords, query_lower)
        /\ AnyKeywordIn(category_keywords[i].keywords, text)}

\* the four fields of the descriptor, concatenated
FourFields(d) ==
    Lower(Join(FilterNonEmpty(<<d.name, d.description, d.keywords,
                                d.science_description_content>>), SP))

\* C11 (as claimed): the score is +100 for q = name, +50/+30/+40/+25 for q a
\* substring of name/description/keywords/content, +10 for each token of q
\* found in the concatenation of those four fields, +20 per category hit.
C11_ScoreAsClaimed ==
    last.op = "score" =>
        LET q == Lower(last.query)
            d == last.plugin
        IN last.score =
              Bonus(q = Lower(d.name), 100)
              + Bonus(Contains(q, Lower(d.name)), 50)
              + Bonus(Contains(q, Lower(d.description)), 30)
              + Bonus(Contains(q, Lower(d.keywords)), 40)
              + Bonus(Contains(q, Lower(d.science_description_content)), 25)
              + 10 * Cardinality(TokensFound(SplitWords(q), FourFields(d)))
              + 20 * Cardinality(CategoriesHit(q, Lower(get_search_text(d))))

\* C11 (amended): the same sum, where the tokens are looked up in the search
\* text (the four fields and the metadata values), and the keywords and
\* content bonuses are given for a non-empty field only.
C11_ScoreIsSumOfBonuses ==
    last.op = "score" =>
        LET q == Lower(last.query)
            d == last.plugin
            text == Lower(get_search_text(d))
        IN last.score =
              Bonus(q = Lower(d.name), 100)
              + Bonus(Contains(q, Lower(d.name)), 50)
              + Bonus(Contains(q, Lower(d.description)), 30)
              + Bonus(d.keywords # EmptyStr /\ Contains(q, Lower(d.keywords)), 40)
              + Bonus(d.science_description_content # EmptyStr
                      /\ Contains(q, Lower(d.science_description_content)), 25)
              + 10 * Cardinality(TokensFound(SplitWords(q), text))
              + 20 * Cardinality(CategoriesHit(q, text))

C11_Witness ==
    /\ last.op = "score"
    /\ last.query = w_PTZ
    /\ last.plugin.name = w_ptz
    /\ last.plugin.science_description_content # EmptyStr
    /\ last.score = 100 + 50 + 10 + 20

\* C12 (as claimed): with one text field of the descriptor extended, the
\* score for the same query is not lower.
C12_ExtensionNeverLowers ==
    last.op = "extend" => last.score_after >= last.score

\* C12 (amended): with description, keywords or content extended the score
\* is not lower; with the name extended it is not lower unless the query
\* was equal to the name.
C12_ExtensionKeepsScore ==
    (last.op = "extend"
     /\ (last.field # "name" \/ Lower(last.query) # Lower(last.plugin.name)))
        => last.score_after >= last.score

C12_Witness ==
    /\ last.op = "extend"
    /\ last.field = "keywords"
    /\ last.suffix = last.query
    /\ last.score_after = last.score + 40

(***************************************************************************)
(* SpecPattern: the plugin pattern each query tool builds from a literal,  *)
(* and the pattern it builds when given its own output.                    *)
(***************************************************************************)
PatternFragments ==
    {w_rain, WILD \o w_rain, w_rain \o WILD, WILD \o w_rain \o WILD, w_ab,
     SP \o w_zzz \o SP, EmptyStr, WILD, w_ptz}

PatternLiterals ==
    PatternFragments
    \cup {a \o PIPE \o b : a \in PatternFragments, b \in {w_ptz, WILD \o w_ptz \o WILD, EmptyStr}}

PatternTools == {"search_measurements", "get_image_data", "query_job_data"}

\* the value of filter_params["plugin"] the tool builds from a literal
PluginPatternOf(tool, literal) ==
    CASE tool = "search_measurements" -> MeasurementPluginPattern(literal)
      [] tool = "get_image_data" -> ImagePluginPattern(literal)
      [] tool = "query_job_data" -> JobPluginPattern(literal)

InitPattern ==
    /\ \E x \in PatternLiterals : call = [tool |-> "literal", literal |-> x]
    /\ plugins = EmptyDict
    /\ science_description_cache = EmptyCache
    /\ last = Idle
    /\ rpc = "idle"
    /\ rstate = NoRefresh
    /\ observed = NotObserved

\* a tool builds its plugin pattern from the literal
Synthesize ==
    /\ call.tool = "literal"
    /\ \E tool \in PatternTools :
          call' = [tool |-> tool, literal |-> call.literal, stage |-> 1,
                   pattern |-> PluginPatternOf(tool, call.literal)]
    /\ UNCHANGED <<plugins, science_description_cache, last, rpc, rstate, observed>>

\* the same tool is given the pattern it built
Resynthesize ==
    /\ call.tool \in PatternTools
    /\ call.stage = 1
    /\ call' = [tool |-> call.tool, literal |-> call.literal, stage |-> 2,
                pattern |-> call.pattern,
                again |-> PluginPatternOf(call.tool, call.pattern)]
    /\ UNCHANGED <<plugins, science_description_cache, last, rpc, rstate, observed>>

NextPattern == Synthesize \/ Resynthesize

SpecPattern == InitPattern /\ [][NextPattern]_vars

\* every `|`-separated fragment of a pattern starts and ends with `.*`
AllFragmentsWrapped(pattern) ==
    LET frags == SplitOn(pattern, "|", EmptyStr)
    IN \A i \in 1..Len(frags) : StartsWith(frags[i], WILD) /\ EndsWith(frags[i], WILD)

\* C13 (as claimed): every `|`-separated fragment of the plugin pattern that
\* search_measurements, get_image_data and query_job_data build from a
\* literal starts with `.*` and ends with `.*`.
C13_EveryFragmentWrapped ==
    call.tool \in PatternTools => AllFragmentsWrapped(call.pattern)

\* the tools whose pattern is built by the fragment rule alone
FragmentRuleTools == {"search_measurements", "get_image_data"}

\* C14: the pattern built from a built pattern is that pattern, and a literal
\* whose fragments all start and end with `.*` is built into itself
\* (search_measurements, get_image_data).
C14_SynthesisIdempotent ==
    (call.tool \in FragmentRuleTools /\ call.stage = 2) =>
        /\ call.again = call.pattern
        /\ AllFragmentsWrapped(call.literal) => call.pattern = call.literal

C14_Witness ==
    /\ call.tool = "search_measurements"
    /\ call.stage = 2
    /\ call.literal = w_rain \o WILD \o PIPE \o w_ptz
    /\ call.pattern = WILD \o w_rain \o WILD \o PIPE \o WILD \o w_ptz \o WILD
    /\ call.again = call.pattern

(***************************************************************************)
(* The natural-language translator (PluginQueryService.parse_natural_query)*)
(***************************************************************************)
\* an absent key of params, and a key with its value
Absent == <<>>

Present(v) == <<v>>

\* TriggerRule with the image/camera rule tried before the PTZ rule
TriggerRule_ImageFirst(query) ==
    LET detection == \/ Contains(w_yolo, query) \/ Contains(w_detect, query)
                     \/ Contains(w_recognition, query)
    IN IF AnyKeywordIn(<<w_image, w_camera, w_photo, w_picture>>, query)
       THEN [plugin_pattern |-> IF detection THEN Present(Wrap(w_yolo))
                                ELSE Present(Wrap(w_imagesampler) \o PIPE \o Wrap(w_camera)),
             categories |-> <<"camera">>]
       ELSE IF AnyKeywordIn(<<w_ptz, w_pan, w_tilt, w_zoom>>, query)
       THEN [plugin_pattern |-> IF detection THEN Present(Wrap(w_ptzapp_yolo))
                                ELSE Present(Wrap(w_ptz)),
             categories |-> <<"camera">>]
       ELSE IF AnyKeywordIn(<<w_temperature, w_humidity, w_pressure, w_weather,
                              w_environmental>>, query)
       THEN [plugin_pattern |-> Absent, categories |-> <<"environmental">>]
       ELSE IF AnyKeywordIn(<<w_audio, w_sound, w_microphone, w_recording>>, query)
       THEN [plugin_pattern |-> Absent, categories |-> <<"audio">>]
       ELSE IF AnyKeywordIn(<<w_cloud, w_rain, w_precipitation, w_sky>>, query)
       THEN [plugin_pattern |-> Absent, categories |-> <<"rain">>]
       ELSE [plugin_pattern |-> Absent, categories |-> <<>>]

\* the if/elif chain of parse_natural_query over the lower-cased query:
\* params["plugin_pattern"] and the categories list
TriggerRule(query) ==
    LET detection == \/ Contains(w_yolo, query) \/ Contains(w_detect, query)
                     \/ Contains(w_recognition, query)
    IN IF AnyKeywordIn(<<w_ptz, w_pan, w_tilt, w_zoom>>, query)
       THEN [plugin_pattern |-> IF detection THEN Present(Wrap(w_ptzapp_yolo))
                                ELSE Present(Wrap(w_ptz)),
             categories |-> <<"camera">>]
       ELSE IF AnyKeywordIn(<<w_image, w_camera, w_photo, w_picture>>, query)
       THEN [plugin_pattern |-> IF detection THEN Present(Wrap(w_yolo))
                                ELSE Present(Wrap(w_imagesampler) \o PIPE \o Wrap(w_camera)),
             categories |-> <<"camera">>]
       ELSE IF AnyKeywordIn(<<w_temperature, w_humidity, w_pressure, w_weather,
                              w_environmental>>, query)
       THEN [plugin_pattern |-> Absent, categories |-> <<"environmental">>]
       ELSE IF AnyKeywordIn(<<w_audio, w_sound, w_microphone, w_recording>>, query)
       THEN [plugin_pattern |-> Absent, categories |-> <<"audio">>]
       ELSE IF AnyKeywordIn(<<w_cloud, w_rain, w_precipitation, w_sky>>, query)
       THEN [plugin_pattern |-> Absent, categories |-> <<"rain">>]
       ELSE [plugin_pattern |-> Absent, categories |-> <<>>]

IsDigit(c) == c \in {"0", "1", "2", "3", "4", "5", "6", "7", "8", "9"}

\* the end of the run of digits that starts at i (\d+, greedy)
RECURSIVE DigitsEnd(_, _)
DigitsEnd(s, i) ==
    IF i + 1 <= Len(s) /\ IsDigit(s[i + 1]) THEN DigitsEnd(s, i + 1) ELSE i

\* the first position from k on that holds no whitespace (\s*)
RECURSIVE SkipSpaces(_, _)
SkipSpaces(s, k) ==
    IF k <= Len(s) /\ s[k] = " " THEN SkipSpaces(s, k + 1) ELSE k

\* the alternation (hour|hr|minute|min) at position k: the first that fits
UnitAt(s, k) ==
    LET fits(u) == k + Len(u) - 1 <= Len(s) /\ SubSeq(s, k, k + Len(u) - 1) = u
    IN IF fits(w_hour) THEN Present(w_hour)
       ELSE IF fits(w_hr) THEN Present(w_hr)
       ELSE IF fits(w_minute) THEN Present(w_minute)
       ELSE IF fits(w_min) THEN Present(w_min)
       ELSE Absent

\* a match of (\d+)\s*(hour|hr|minute|min)s?(?:\s+ago)? that starts at i
MatchAt(s, i) ==
    IF i <= Len(s) /\ IsDigit(s[i])
    THEN LET j == DigitsEnd(s, i)
             u == UnitAt(s, SkipSpaces(s, j + 1))
         IN IF u # Absent THEN Present([amount |-> SubSeq(s, i, j), unit |-> u[1]])
            ELSE Absent
    ELSE Absent

\* time_matches[0] of re.findall: the leftmost match, if any
RECURSIVE FirstTimeMatch(_, _)
FirstTimeMatch(s, i) ==
    IF i > Len(s) THEN Absent
    ELSE IF MatchAt(s, i) # Absent THEN MatchAt(s, i)
    ELSE FirstTimeMatch(s, i + 1)

\* params["time_range"]
TimeRangeOf(query) ==
    LET time_matches == FirstTimeMatch(query, 1)
    IN IF time_matches # Absent /\ StartsWith(time_matches[1].unit, w_hour)
       THEN DASH \o time_matches[1].amount \o <<"h">>
       ELSE IF time_matches # Absent /\ StartsWith(time_matches[1].unit, w_min)
       THEN DASH \o time_matches[1].amount \o <<"m">>
       ELSE w_1h

\* parse_natural_query that takes the node W1 from a text that names it
parse_natural_query_NodeFromText(query) ==
    LET q == Lower(query)
        rule == TriggerRule(q)
    IN [plugin_pattern |-> rule.plugin_pattern,
        categories |-> rule.categories,
        time_range |-> TimeRangeOf(q),
        nodes |-> IF Contains(<<"w", "1">>, q) THEN <<<<"W", "1">>>> ELSE Absent]

\* PluginQueryService.parse_natural_query
parse_natural_query(query) ==
    LET q == Lower(query)
        rule == TriggerRule(q)
    IN [plugin_pattern |-> rule.plugin_pattern,
        categories |-> rule.categories,
        time_range |-> TimeRangeOf(q),
        nodes |-> Absent]

(***************************************************************************)
(* SpecTranslate: parse_natural_query applied to a text made of trigger    *)
(* words followed by a time expression.                                    *)
(***************************************************************************)
TextBodies ==
    {w_ptz \o SP \o w_yolo \o SP \o w_detection,
     w_PTZ,
     w_pan \o SP \o w_image,
     w_zoom \o SP \o w_camera \o SP \o w_recognition,
     w_camera \o SP \o w_detect,
     w_camera \o SP \o w_temperature,
     w_photo,
     w_weather \o SP \o w_sound,
     w_microphone \o SP \o w_rain,
     w_cloud \o SP \o w_cover,
     w_zzz,
     EmptyStr}

\* a time expression as written in the text: its text, and the amount and
\* the unit of the first expression in it
NoPhrase == [text |-> EmptyStr, first |-> Absent]

Phrase(text, amount, unit) == [text |-> text, first |-> Present([amount |-> amount, unit |-> unit])]

TimePhrases ==
    {NoPhrase,
     Phrase(SP \o <<"2">> \o SP \o w_hour \o <<"s">>, <<"2">>, w_hour),
     Phrase(SP \o <<"2">> \o SP \o w_hr, <<"2">>, w_hr),
     Phrase(SP \o <<"3", "0">> \o SP \o w_minute \o <<"s">> \o SP \o <<"a", "g", "o">>,
            <<"3", "0">>, w_minute),
     Phrase(SP \o <<"5">> \o w_min, <<"5">>, w_min),
     Phrase(SP \o <<"2">> \o SP \o w_hr \o <<"s">> \o SP \o <<"3">> \o SP \o w_min,
            <<"2">>, w_hr),
     Phrase(SP \o <<"3">> \o SP \o w_min \o SP \o <<"2">> \o SP \o w_hour \o <<"s">>,
            <<"3">>, w_min)}

InitTranslate ==
    /\ \E b \in TextBodies, ph \in TimePhrases :
          call = [tool |-> "text", text |-> b \o ph.text, first |-> ph.first]
    /\ plugins = EmptyDict
    /\ science_description_cache = EmptyCache
    /\ last = Idle
    /\ rpc = "idle"
    /\ rstate = NoRefresh
    /\ observed = NotObserved

\* parse_natural_query(query)
Translate ==
    /\ call.tool = "text"
    /\ call' = [tool |-> "parse_natural_query", text |-> call.text, first |-> call.first,
                params |-> parse_natural_query(call.text)]
    /\ UNCHANGED <<plugins, science_description_cache, last, rpc, rstate, observed>>

NextTranslate == Translate

SpecTranslate == InitTranslate /\ [][NextTranslate]_vars

Translated == call.tool = "parse_natural_query"

\* C15 (as claimed): the first `<N> hour|hr|minute|min` of the text gives the
\* time window -<N>h for hour and hr, -<N>m for minute and min; a text with
\* no such expression gives -1h.
C15_TimeWindowAsClaimed ==
    Translated =>
        call.params.time_range =
            IF call.first = Absent THEN w_1h
            ELSE IF call.first[1].unit \in {w_hour, w_hr}
            THEN DASH \o call.first[1].amount \o <<"h">>
            ELSE DASH \o call.first[1].amount \o <<"m">>

\* whether the text holds one of the words
Mentions(words) == \E x \in words : Contains(x, Lower(call.text))

PtzWords == {w_ptz, w_pan, w_tilt, w_zoom}

DetectionWords == {w_yolo, w_detect, w_recognition}

ImageWords == {w_image, w_camera, w_photo, w_picture}

EnvironmentalWords == {w_temperature, w_humidity, w_pressure, w_weather, w_environmental}

AudioWords == {w_audio, w_sound, w_microphone, w_recording}

CloudWords == {w_cloud, w_rain, w_precipitation, w_sky}

\* C16: the rules are tried in the order PTZ, image/camera, environmental,
\* audio, cloud/rain and the first that matches sets the pattern: PTZ with
\* a detection word gives .*ptzapp-yolo.* and camera, also when image words
\* are there; PTZ alone gives .*ptz.*; a text of the environmental, audio or
\* cloud/rain rule only gives no pattern, and the category of the first of
\* these rules.
C16_FirstRuleSetsPattern ==
    Translated =>
        LET p == call.params
        IN /\ (Mentions(PtzWords) /\ Mentions(DetectionWords))
                 => p.plugin_pattern = Present(Wrap(w_ptzapp_yolo)) /\ p.categories = <<"camera">>
           /\ (Mentions(PtzWords) /\ ~Mentions(DetectionWords))
                 => p.plugin_pattern = Present(Wrap(w_ptz)) /\ p.categories = <<"camera">>
           /\ (~Mentions(PtzWords) /\ Mentions(ImageWords))
                 => /\ p.plugin_pattern =
                          IF Mentions(DetectionWords) THEN Present(Wrap(w_yolo))
                          ELSE Present(Wrap(w_imagesampler) \o PIPE \o Wrap(w_camera))
                    /\ p.categories = <<"camera">>
           /\ (~Mentions(PtzWords) /\ ~Mentions(ImageWords))
                 => /\ p.plugin_pattern = Absent
                    /\ p.categories =
                          IF Mentions(EnvironmentalWords) THEN <<"environmental">>
                          ELSE IF Mentions(AudioWords) THEN <<"audio">>
                          ELSE IF Mentions(CloudWords) THEN <<"rain">>
                          ELSE <<>>

C16_Witness ==
    /\ Translated
    /\ Mentions(PtzWords) /\ Mentions(DetectionWords) /\ Mentions(ImageWords)
    /\ call.params.plugin_pattern = Present(Wrap(w_ptzapp_yolo))
    /\ call.params.categories = <<"camera">>

\* C17 (as claimed): the categories hold the category of every rule whose
\* trigger words the text holds.
C17_CategoriesAccumulate ==
    Translated =>
        LET cats == Range(call.params.categories)
        IN /\ (Mentions(PtzWords) \/ Mentions(ImageWords)) => "camera" \in cats
           /\ Mentions(EnvironmentalWords) => "environmental" \in cats
           /\ Mentions(AudioWords) => "audio" \in cats
           /\ Mentions(CloudWords) => "rain" \in cats

(***************************************************************************)
(* SpecDocs: refreshes of the registry against a document store whose      *)
(* answer for a path changes from one refresh to the next.                 *)
(***************************************************************************)
doc_y == w_ml

DocRecords == {rec_a, rec_a2, rec_noid, rec_bad}

DocCatalogs == SeqsUpTo(DocRecords, MaxRecords)

DocStoreAnswers == [Refs -> {DocFail, DocOk(doc_x), DocOk(doc_y)}]

DocRefreshResponses ==
    {[kind |-> "exception", data |-> <<>>, docs |-> NoDocs],
     [kind |-> "non200", data |-> <<>>, docs |-> NoDocs]}
    \cup {[kind |-> "object", data |-> c, docs |-> d] : c \in DocCatalogs, d \in DocStoreAnswers}

\* PluginRegistry.__init__
InitDocs ==
    /\ \E resp \in DocRefreshResponses :
          LET r == refresh_cache(EmptyDict, EmptyCache, resp)
          IN /\ plugins = r.plugins
             /\ science_description_cache = r.cache
             /\ last = [Idle EXCEPT !.op = "refresh", !.resp = resp, !.fetched = r.fetched]
    /\ rpc = "idle"
    /\ rstate = NoRefresh
    /\ observed = NotObserved
    /\ call = NoCall

\* refresh_cache()
RefreshDocs ==
    /\ \E resp \in DocRefreshResponses :
          LET r == refresh_cache(plugins, science_description_cache, resp)
          IN /\ plugins' = r.plugins
             /\ science_description_cache' = r.cache
             /\ last' = [Idle EXCEPT !.op = "refresh", !.resp = resp, !.pre = plugins,
                                     !.precache = science_description_cache,
                                     !.fetched = r.fetched]
    /\ UNCHANGED <<rpc, rstate, observed, call>>

NextDocs == RefreshDocs

SpecDocs == InitDocs /\ [][NextDocs]_vars

\* the batch has a record that parses and refers to the document
Meets(data, ref) ==
    \E i \in 1..Len(data) : data[i].wellformed /\ data[i].science_description = ref

\* the last refresh met the document, had it not in the cache, and its GET failed
FetchFailed(ref) ==
    /\ RefreshDone /\ CatalogParsed
    /\ Meets(last.resp.data, ref)
    /\ ref \notin DOMAIN last.precache
    /\ ~last.resp.docs[ref].ok

\* C18: when the GET of a document fails, the plugins that refer to it are
\* stored with empty content, the cache gets no entry for the path, and the
\* next refresh that meets the path issues the GET again.
C18_FailedFetchNotCached ==
    /\ [](\A ref \in Refs : FetchFailed(ref) =>
            /\ ref \notin DOMAIN science_description_cache
            /\ \A id \in StorableIds(last.resp.data) :
                  LastRecordWithId(last.resp.data, id).science_description = ref =>
                     /\ DictHas(plugins, id)
                     /\ DictGet(plugins, id).science_description_content = EmptyStr)
    /\ [][\A ref \in Refs :
             (FetchFailed(ref) /\ last'.resp.kind = "object" /\ Meets(last'.resp.data, ref))
                => ref \in Range(last'.fetched)]_vars

C18_Witness ==
    /\ RefreshDone /\ CatalogParsed
    /\ DictHas(last.pre, id_a)
    /\ DictGet(last.pre, id_a).science_description = ref_x
    /\ DictGet(last.pre, id_a).science_description_content = EmptyStr
    /\ ref_x \notin DOMAIN last.precache
    /\ rec_a \in Range(last.resp.data)
    /\ ref_x \in Range(last.fetched)
    /\ last.resp.docs[ref_x] = DocOk(doc_y)
    /\ DictGet(plugins, id_a).science_description_content = doc_y

\* C19: an entry of the document cache is never removed or changed by a
\* refresh, and a refresh that meets a cached path issues no GET for it and
\* gives the plugins the cached content.
C19_CacheEntryIsKept ==
    [][\A ref \in DOMAIN science_description_cache :
          /\ ref \in DOMAIN science_description_cache'
          /\ science_description_cache'[ref] = science_description_cache[ref]
          /\ ref \notin Range(last'.fetched)
          /\ last'.resp.kind = "object" =>
                \A id \in StorableIds(last'.resp.data) :
                   LastRecordWithId(last'.resp.data, id).science_description = ref =>
                      DictGet(plugins', id).science_description_content
                         = science_description_cache[ref]]_vars

C19_Witness ==
    /\ RefreshDone /\ CatalogParsed
    /\ ref_x \in DOMAIN last.precache
    /\ last.precache[ref_x] = doc_x
    /\ rec_a \in Range(last.resp.data)
    /\ last.resp.docs[ref_x] = DocOk(doc_y)
    /\ last.fetched = <<>>
    /\ science_description_cache[ref_x] = doc_x
    /\ DictGet(plugins, id_a).science_description_content = doc_x

(***************************************************************************)
(* The plugin query service: the operations around parse_natural_query,    *)
(* with the exceptions they let through to their caller.                   *)
(***************************************************************************)
\* the category names of parse_natural_query as text
CategoryText(c) ==
    CASE c = "camera" -> w_camera
      [] c = "environmental" -> w_environmental
      [] c = "audio" -> w_audio
      [] c = "rain" -> w_rain

\* the loop `for category in params["categories"]` of find_plugins_for_task
RECURSIVE PluginsOfCategories(_, _)
PluginsOfCategories(store, categories) ==
    IF categories = <<>> THEN <<>>
    ELSE get_plugins_by_type(store, CategoryText(categories[1]))
         \o PluginsOfCategories(store, Tail(categories))

\* unique_plugins: the first plugin of each id, order kept
RECURSIVE UniqueById(_, _)
UniqueById(matching, unique) ==
    IF matching = <<>> THEN unique
    ELSE UniqueById(Tail(matching),
                    IF \E i \in 1..Len(unique) : unique[i].id = matching[1].id
                    THEN unique ELSE Append(unique, matching[1]))

Returned(v) == [raised |-> FALSE, result |-> v]

Raised == [raised |-> TRUE, result |-> <<>>]

\* PluginQueryService.find_plugins_for_task (sage_mcp_server)
find_plugins_for_task(store, task_description) ==
    LET params == parse_natural_query(task_description)
    IN Returned(UniqueById(PluginsOfCategories(store, params.categories)
                           \o search_plugins(store, task_description, 10), <<>>))

\* parse_natural_query of src/plugin_query_service.py: the dict it returns.
\* Its if/elif chain is the first two branches of the chain above, and it
\* sets neither "categories" nor a default "time_range" nor "nodes".
parse_natural_query_top(query) ==
    LET q == Lower(query)
        pattern == TriggerRule(q).plugin_pattern
        time_matches == FirstTimeMatch(q, 1)
        p1 == IF pattern # Absent THEN DSet(EmptyFilter, "plugin_pattern", pattern[1])
              ELSE EmptyFilter
    IN IF time_matches # Absent /\ StartsWith(time_matches[1].unit, w_hour)
       THEN DSet(p1, "time_range", DASH \o time_matches[1].amount \o <<"h">>)
       ELSE IF time_matches # Absent /\ StartsWith(time_matches[1].unit, w_min)
       THEN DSet(p1, "time_range", DASH \o time_matches[1].amount \o <<"m">>)
       ELSE p1

\* find_plugins_for_task of src/plugin_query_service.py: params["categories"]
\* is read without a test of the key
find_plugins_for_task_top(store, task_description) ==
    LET params == parse_natural_query_top(task_description)
    IN IF "categories" \notin DOMAIN params
       THEN Raised
       ELSE Returned(UniqueById(PluginsOfCategories(store, params["categories"])
                                \o search_plugins(store, task_description, 10), <<>>))

DigitValue(c) ==
    CASE c = "0" -> 0 [] c = "1" -> 1 [] c = "2" -> 2 [] c = "3" -> 3 [] c = "4" -> 4
      [] c = "5" -> 5 [] c = "6" -> 6 [] c = "7" -> 7 [] c = "8" -> 8 [] c = "9" -> 9

\* int(digits)
RECURSIVE DigitsToInt(_)
DigitsToInt(digits) ==
    IF digits = <<>> THEN 0
    ELSE 10 * DigitsToInt(SubSeq(digits, 1, Len(digits) - 1)) + DigitValue(digits[Len(digits)])

\* the hours between datetime.min and datetime.utcnow()
HoursSinceYearOne == 17758120

\* query_plugin_data, no start given: whether now - timedelta(...) leaves the
\* range of datetime (OverflowError), for a time_range that
\* re.match(r'-(\d+)([hm])') accepts
StartOverflows(time_range) ==
    /\ ~(Contains(<<"T">>, time_range) /\ Contains(<<"Z">>, time_range))
    /\ Len(time_range) >= 3
    /\ time_range[1] = "-"
    /\ IsDigit(time_range[2])
    /\ LET j == DigitsEnd(time_range, 2)
           amount == DigitsToInt(SubSeq(time_range, 2, j))
       IN /\ j + 1 <= Len(time_range)
          /\ time_range[j + 1] \in {"h", "m"}
          /\ IF time_range[j + 1] = "h" THEN amount > HoursSinceYearOne
             ELSE amount > 60 * HoursSinceYearOne

\* PluginQueryService.query_plugin_data as its caller sees it: the start of
\* the window is computed outside the try block
query_plugin_data_call(store, plugin_id, nodes, time_range, outcome) ==
    IF get_plugin_by_id(store, plugin_id) # <<>> /\ StartOverflows(time_range)
    THEN Raised
    ELSE Returned(plugin_query_plugin_data(store, plugin_id, nodes, time_range, outcome).result)

\* PluginQueryService.query_by_natural_language: everything is inside try
query_by_natural_language(store, query) ==
    LET params == parse_natural_query(query)
        found == find_plugins_for_task(store, query).result
    IN IF found = <<>> THEN Returned("no plugins found")
       ELSE IF StartOverflows(params.time_range) THEN Returned("error processing your query")
       ELSE Returned("formatted results")

(***************************************************************************)
(* SpecCore: the operations of the plugin query service, called one at a   *)
(* time, with what their caller gets: a value or an exception.             *)
(***************************************************************************)
w_99999999 == <<"9", "9", "9", "9", "9", "9", "9", "9">>

CoreTexts ==
    {w_ptz, w_camera \o SP \o w_temperature, w_zzz, EmptyStr,
     w_ptz \o SP \o <<"2">> \o SP \o w_hour \o <<"s">>,
     w_ptz \o SP \o w_99999999 \o SP \o w_hour \o <<"s">>}

CoreTimeArgs == {w_1h, w_30m, EmptyStr, DASH \o w_99999999 \o <<"h">>}

CoreCatalogs == {<<>>, <<rec_a>>, <<rec_a, rec_b>>}

InitCore ==
    /\ \E c \in CoreCatalogs :
          LET r == refresh_cache(EmptyDict, EmptyCache,
                                 [kind |-> "object", data |-> c,
                                  docs |-> [x \in Refs |-> DocOk(doc_x)]])
          IN /\ plugins = r.plugins
             /\ science_description_cache = r.cache
    /\ last = Idle
    /\ rpc = "idle"
    /\ rstate = NoRefresh
    /\ observed = NotObserved
    /\ call = NoCall

CoreCall(tool, arg, nodes, time_range, r) ==
    [tool |-> tool, arg |-> arg, nodes |-> nodes, time_range |-> time_range,
     raised |-> r.raised, result |-> r.result]

\* find_plugins_for_task of src/plugin_query_service.py
FindPluginsForTaskTop ==
    /\ \E t \in CoreTexts :
          call' = CoreCall("plugin_query_service.find_plugins_for_task", t, <<>>, EmptyStr,
                           find_plugins_for_task_top(plugins, t))
    /\ UNCHANGED <<plugins, science_description_cache, last, rpc, rstate, observed>>

\* find_plugins_for_task of src/sage_mcp_server/plugin_query_service.py
FindPluginsForTask ==
    /\ \E t \in CoreTexts :
          call' = CoreCall("sage_mcp_server.plugin_query_service.find_plugins_for_task", t,
                           <<>>, EmptyStr, find_plugins_for_task(plugins, t))
    /\ UNCHANGED <<plugins, science_description_cache, last, rpc, rstate, observed>>

\* query_plugin_data(plugin_id, nodes, time_range)
QueryPluginData ==
    /\ \E id \in PluginIds, ns \in NodeLists, t \in CoreTimeArgs, o \in Outcomes :
          call' = CoreCall("query_plugin_data", id, ns, t,
                           query_plugin_data_call(plugins, id, ns, t, o))
    /\ UNCHANGED <<plugins, science_description_cache, last, rpc, rstate, observed>>

\* query_by_natural_language(query)
QueryByNaturalLanguage ==
    /\ \E t \in CoreTexts :
          call' = CoreCall("query_by_natural_language", t, <<>>, EmptyStr,
                           query_by_natural_language(plugins, t))
    /\ UNCHANGED <<plugins, science_description_cache, last, rpc, rstate, observed>>

NextCore ==
    FindPluginsForTaskTop \/ FindPluginsForTask \/ QueryPluginData \/ QueryByNaturalLanguage

SpecCore == InitCore /\ [][NextCore]_vars

\* C20 (as claimed): no operation lets an exception through to its caller;
\* each returns a value.
C20_NoExceptionPropagates ==
    call.tool # "none" => ~call.raised

(***************************************************************************)
(* SpecCatalog: the registry fed with catalog bodies as the wire gives     *)
(* them (JSON values whose members may be missing or null), and read by    *)
(* search_plugins, get_plugin_by_id and get_plugins_by_type.               *)
(***************************************************************************)
\* a member of a JSON object: not there, null, or a string
JsonMissing == [kind |-> "missing", text |-> EmptyStr]

JsonNull == [kind |-> "null", text |-> EmptyStr]

JsonStr(t) == [kind |-> "string", text |-> t]

\* plugin_data.get(key, ""): the default only takes the place of a missing
\* member; a null stays None
GetOrDefault(member) == IF member.kind = "missing" THEN JsonStr(EmptyStr) ELSE member

\* plugin_data.get(key) or "": missing, null and "" all give ""
OrEmpty(member) == IF member.kind = "string" THEN member.text ELSE EmptyStr

\* ParseRecord that reads description and keywords with plugin_data[key]
ParseRecord_Strict(raw) ==
    [id |-> GetOrDefault(raw.id).text,
     name |-> GetOrDefault(raw.name).text,
     description |-> OrEmpty(raw.description),
     keywords |-> OrEmpty(raw.keywords),
     science_description |-> OrEmpty(raw.science_description),
     metadata |-> raw.metadata,
     wellformed |-> /\ raw.wellformed
                    /\ GetOrDefault(raw.id).kind = "string"
                    /\ GetOrDefault(raw.name).kind = "string"
                    /\ raw.description.kind # "missing"
                    /\ raw.keywords.kind # "missing"]

\* The arguments refresh_cache gives to PluginMetadata(...) for one record of
\* the body; id and name are `str` fields of the pydantic model, so a None
\* there raises and the record is skipped.
ParseRecord(raw) ==
    [id |-> GetOrDefault(raw.id).text,
     name |-> GetOrDefault(raw.name).text,
     description |-> OrEmpty(raw.description),
     keywords |-> OrEmpty(raw.keywords),
     science_description |-> OrEmpty(raw.science_description),
     metadata |-> raw.metadata,
     wellformed |-> /\ raw.wellformed
                    /\ GetOrDefault(raw.id).kind = "string"
                    /\ GetOrDefault(raw.name).kind = "string"]

ParseRecords(raws) == [i \in 1..Len(raws) |-> ParseRecord(raws[i])]

raw_full == [id |-> JsonStr(id_a), name |-> JsonStr(w_ptz), description |-> JsonStr(w_pan),
             keywords |-> JsonStr(w_ai), science_description |-> JsonStr(ref_x),
             metadata |-> <<>>, wellformed |-> TRUE]
raw_bare == [id |-> JsonStr(id_b), name |-> JsonStr(w_PTZ), description |-> JsonMissing,
             keywords |-> JsonMissing, science_description |-> JsonNull,
             metadata |-> <<>>, wellformed |-> TRUE]
raw_noid == [id |-> JsonMissing, name |-> JsonStr(w_ptz), description |-> JsonNull,
             keywords |-> JsonStr(w_ai), science_description |-> JsonMissing,
             metadata |-> <<>>, wellformed |-> TRUE]
raw_nullname == [id |-> JsonStr(id_b), name |-> JsonNull, description |-> JsonStr(w_rain),
                 keywords |-> JsonMissing, science_description |-> JsonMissing,
                 metadata |-> <<>>, wellformed |-> TRUE]

RawPool == {raw_full, raw_bare, raw_noid, raw_nullname}

\* the answers of the catalog source: another status than 200, or 200 with a
\* body that is {"data": [...]} or a bare [...]
CatalogBodies ==
    {[kind |-> "non200", records |-> <<>>]}
    \cup {[kind |-> k, records |-> c] : k \in {"object", "array"},
                                        c \in SeqsUpTo(RawPool, MaxRecords)}

CatalogQueries == {w_PTZ, w_ptz, <<"T">>, w_zzz, EmptyStr}

\* what refresh_cache makes of one answer
RefreshFromBody(store, cache, body) ==
    refresh_cache(store, cache,
                  [kind |-> body.kind, data |-> ParseRecords(body.records),
                   docs |-> [x \in Refs |-> DocOk(doc_x)]])

RefreshCall(body) == [tool |-> "refresh_cache", body |-> body]

\* PluginRegistry.__init__
InitCatalog ==
    /\ \E body \in CatalogBodies :
          LET r == RefreshFromBody(EmptyDict, EmptyCache, body)
          IN /\ plugins = r.plugins
             /\ science_description_cache = r.cache
             /\ last = [Idle EXCEPT !.op = "refresh",
                                    !.resp = [kind |-> body.kind,
                                              data |-> ParseRecords(body.records),
                                              docs |-> [x \in Refs |-> DocOk(doc_x)]],
                                    !.fetched = r.fetched]
             /\ call = RefreshCall(body)
    /\ rpc = "idle"
    /\ rstate = NoRefresh
    /\ observed = NotObserved

\* refresh_cache()
RefreshCatalog ==
    /\ \E body \in CatalogBodies :
          LET r == RefreshFromBody(plugins, science_description_cache, body)
          IN /\ plugins' = r.plugins
             /\ science_description_cache' = r.cache
             /\ last' = [Idle EXCEPT !.op = "refresh",
                                     !.resp = [kind |-> body.kind,
                                               data |-> ParseRecords(body.records),
                                               docs |-> [x \in Refs |-> DocOk(doc_x)]],
                                     !.pre = plugins,
                                     !.precache = science_description_cache,
                                     !.fetched = r.fetched]
             /\ call' = RefreshCall(body)
    /\ UNCHANGED <<rpc, rstate, observed>>

\* search_plugins that drops the plugins without a positive score from the dict
SearchCatalog_Pruning ==
    /\ \E q \in CatalogQueries, k \in 0..MaxResultsBound :
          /\ last' = [Idle EXCEPT !.op = "search", !.query = q, !.max_results = k,
                                  !.result = search_plugins(plugins, q, k)]
          /\ plugins' = [keys |-> SelectSeq(plugins.keys,
                                            LAMBDA id : Score(DictGet(plugins, id), q) > 0),
                         val |-> SelectSeq(plugins.val, LAMBDA p : Score(p, q) > 0)]
    /\ UNCHANGED <<science_description_cache, rpc, rstate, observed, call>>

\* search_plugins(query, max_results)
SearchCatalog ==
    /\ \E q \in CatalogQueries, k \in 0..MaxResultsBound :
          last' = [Idle EXCEPT !.op = "search", !.query = q, !.max_results = k,
                               !.result = search_plugins(plugins, q, k)]
    /\ UNCHANGED <<plugins, science_description_cache, rpc, rstate, observed, call>>

\* get_plugin_by_id(plugin_id)
GetByIdCatalog ==
    /\ \E k \in PluginIds :
          last' = [Idle EXCEPT !.op = "get_by_id", !.query = k,
                               !.result = get_plugin_by_id(plugins, k)]
    /\ UNCHANGED <<plugins, science_description_cache, rpc, rstate, observed, call>>

\* get_plugins_by_type(plugin_type)
GetByTypeCatalog ==
    /\ \E t \in PluginTypes :
          last' = [Idle EXCEPT !.op = "get_by_type", !.query = t,
                               !.result = get_plugins_by_type(plugins, t)]
    /\ UNCHANGED <<plugins, science_description_cache, rpc, rstate, observed, call>>

NextCatalog == RefreshCatalog \/ SearchCatalog \/ GetByIdCatalog \/ GetByTypeCatalog

SpecCatalog == InitCatalog /\ [][NextCatalog]_vars

\* the dict holds, under the id of every record of the batch that parses and
\* has a non-empty id, the descriptor of the last such record, and no key
\* that was neither there before nor comes from the batch
BatchIsStored ==
    /\ KeySet(plugins) = KeySet(last.pre) \cup StorableIds(last.resp.data)
    /\ \A id \in StorableIds(last.resp.data) :
          /\ Cardinality({k \in 1..Len(plugins.keys) : plugins.keys[k] = id}) = 1
          /\ LET rec == LastRecordWithId(last.resp.data, id)
                 p == DictGet(plugins, id)
             IN /\ p.id = id
                /\ p.name = rec.name
                /\ p.description = rec.description
                /\ p.keywords = rec.keywords
                /\ p.science_description = rec.science_description

\* C22 (as claimed): after a refresh whose catalog GET answers 200 with a
\* body that is a JSON array of records, every record with a non-empty id has
\* its descriptor in the dict.
C22_ArrayBodyIsStored ==
    (RefreshDone /\ last.resp.kind = "array") => BatchIsStored

\* C22 (amended): after a refresh whose catalog GET answers 200 with a body
\* that is a JSON object whose `data` member is the array of records, every
\* record that parses and has a non-empty id has its descriptor in the dict.
C22_DataObjectIsStored ==
    (RefreshDone /\ CatalogParsed) => BatchIsStored

C22_Witness ==
    /\ RefreshDone /\ CatalogParsed
    /\ call.body.records = <<raw_bare, raw_full>>
    /\ last.pre = EmptyDict
    /\ plugins.keys = <<id_b, id_a>>
    /\ DictGet(plugins, id_a).name = w_ptz
    /\ DictGet(plugins, id_b).name = w_PTZ

\* a record of the body that has a non-empty id and is otherwise complete
\* enough to be built (its name is not null)
RecordWithId(raw) ==
    /\ raw.wellformed
    /\ raw.id.kind = "string" /\ raw.id.text # EmptyStr
    /\ raw.name.kind # "null"

\* such a record with neither description nor keywords
LacksBoth(raw) ==
    /\ RecordWithId(raw)
    /\ raw.description.kind = "missing"
    /\ raw.keywords.kind = "missing"

\* the last refresh stored such a record: its descriptor has "" in both fields
BareRecordsStored ==
    (RefreshDone /\ CatalogParsed) =>
        \A i \in 1..Len(call.body.records) :
           (/\ LacksBoth(call.body.records[i])
            /\ \A j \in (i + 1)..Len(call.body.records) :
                  ~(RecordWithId(call.body.records[j])
                    /\ call.body.records[j].id = call.body.records[i].id)) =>
              LET id == call.body.records[i].id.text
              IN /\ DictHas(plugins, id)
                 /\ DictGet(plugins, id).description = EmptyStr
                 /\ DictGet(plugins, id).keywords = EmptyStr

\* the stored descriptors with "" in both fields whose name holds the query
BareNameMatches ==
    {i \in 1..Len(plugins.val) :
        /\ plugins.val[i].description = EmptyStr
        /\ plugins.val[i].keywords = EmptyStr
        /\ Contains(last.query, plugins.val[i].name)}

\* C23 (as claimed): a record with a non-empty id and without description and
\* keywords is stored with "" in both, and a search (for at least one
\* result) whose query is a substring of its name returns it.
C23_BareRecordIsReturned ==
    /\ BareRecordsStored
    /\ (last.op = "search" /\ last.max_results >= 1) =>
          \A i \in BareNameMatches : plugins.val[i] \in Range(last.result)

\* C23 (amended): such a record is stored with "" in both fields, and a
\* search whose query is a substring of its name gives it a positive score:
\* it is returned unless max_results descriptors that rank before it are.
C23_BareRecordIsRanked ==
    /\ BareRecordsStored
    /\ last.op = "search" =>
          \A i \in BareNameMatches :
             /\ Score(plugins.val[i], last.query) > 0
             /\ \/ plugins.val[i] \in Range(last.result)
                \/ /\ Len(last.result) = last.max_results
                   /\ \A j \in 1..Len(last.result) :
                         Outranks(last.result[j], plugins.val[i], last.query)

C23_Witness ==
    /\ last.op = "search"
    /\ raw_bare \in Range(call.body.records)
    /\ plugins.keys = <<id_a, id_b>>
    /\ DictGet(plugins, id_b).description = EmptyStr
    /\ DictGet(plugins, id_b).keywords = EmptyStr
    /\ last.query = <<"T">>
    /\ last.max_results = 2
    /\ last.result = <<DictGet(plugins, id_a), DictGet(plugins, id_b)>>

ReadOps == {"search", "get_by_id", "get_by_type"}

\* C25: search_plugins, get_plugin_by_id and get_plugins_by_type leave the
\* dict and the document cache as they are, and a search in which no plugin
\* has a positive score returns the empty list.
C25_ReadsChangeNothing ==
    /\ [][last'.op \in ReadOps =>
             /\ plugins' = plugins
             /\ science_description_cache' = science_description_cache]_vars
    /\ []((last.op = "search" /\ PositiveIndices(last.query) = {}) => last.result = <<>>)

C25_Witness ==
    /\ last.op = "search"
    /\ Len(plugins.keys) = 2
    /\ ref_x \in DOMAIN science_description_cache
    /\ last.max_results > 0
    /\ PositiveIndices(last.query) = {}
    /\ last.result = <<>>

(***************************************************************************)
(* format_plugin_data: the report on a table of observations, in the two   *)
(* implementations of the repository.  A row is its `value` cell; the      *)
(* report is modelled by its record count and its value statistics, in     *)
(* hundredths (the `:.2f` of the code).                                    *)
(***************************************************************************)
\* a `value` cell: a number, a text that reads as a number, any other text
NumberCell(n) == [kind |-> "number", n |-> n]

NumericTextCell(n) == [kind |-> "numeric_text", n |-> n]

TextCell == [kind |-> "text", n |-> 0]

\* pd.to_numeric(df['value'], errors='coerce'), without the NaN cells
RECURSIVE CoercedValues(_)
CoercedValues(rows) ==
    IF rows = <<>> THEN <<>>
    ELSE (IF rows[1].kind \in {"number", "numeric_text"} THEN <<rows[1].n>> ELSE <<>>)
         \o CoercedValues(Tail(rows))

\* Series.min(), Series.max() and the sum behind Series.mean()
RECURSIVE SeriesMin(_)
SeriesMin(xs) ==
    IF Len(xs) = 1 THEN xs[1]
    ELSE LET m == SeriesMin(Tail(xs)) IN IF xs[1] < m THEN xs[1] ELSE m

RECURSIVE SeriesMax(_)
SeriesMax(xs) ==
    IF Len(xs) = 1 THEN xs[1]
    ELSE LET m == SeriesMax(Tail(xs)) IN IF xs[1] > m THEN xs[1] ELSE m

RECURSIVE SeriesSum(_)
SeriesSum(xs) == IF xs = <<>> THEN 0 ELSE xs[1] + SeriesSum(Tail(xs))

\* f"{total / count:.2f}" of a non-negative quotient, in hundredths
Round2(total, count) ==
    LET q == (100 * total) \div count
        r == (100 * total) % count
    IN IF 2 * r > count THEN q + 1
       ELSE IF 2 * r = count THEN q + (q % 2)
       ELSE q

NoStatistics == <<>>

Statistics(xs) ==
    <<[minimum |-> 100 * SeriesMin(xs), maximum |-> 100 * SeriesMax(xs),
       average |-> Round2(SeriesSum(xs), Len(xs))]>>

Report(count, statistics) == [raised |-> FALSE, count |-> count, statistics |-> statistics]

ReportRaised == [raised |-> TRUE, count |-> 0, statistics |-> NoStatistics]

\* PluginQueryService.format_plugin_data of sage_mcp_server
format_plugin_data(rows) ==
    IF rows = <<>> THEN Report(0, NoStatistics)
    ELSE LET numeric_values == CoercedValues(rows)
         IN Report(Len(rows),
                   IF numeric_values # <<>> THEN Statistics(numeric_values) ELSE NoStatistics)

\* PluginQueryService.format_plugin_data of src/plugin_query_service.py: the
\* statistics are taken of the column as it is, and a text cell makes
\* min(), mean() or the `:.2f` raise
format_plugin_data_top(rows) ==
    IF rows = <<>> THEN Report(0, NoStatistics)
    ELSE IF \E i \in 1..Len(rows) : rows[i].kind # "number"
    THEN ReportRaised
    ELSE Report(Len(rows), Statistics(CoercedValues(rows)))

(***************************************************************************)
(* SpecFormat: format_plugin_data applied to the tables of a pool.         *)
(***************************************************************************)
ValueCells == {NumberCell(1), NumberCell(2), NumericTextCell(4), TextCell}

FormatTables == SeqsUpTo(ValueCells, MaxRows)

InitFormat ==
    /\ plugins = EmptyDict
    /\ science_description_cache = EmptyCache
    /\ last = Idle
    /\ rpc = "idle"
    /\ rstate = NoRefresh
    /\ observed = NotObserved
    /\ call = NoCall

FormatCall(tool, rows, report) == [tool |-> tool, rows |-> rows, report |-> report]

\* format_plugin_data(df, plugin) of sage_mcp_server/plugin_query_service.py
FormatPluginData ==
    /\ \E rows \in FormatTables :
          call' = FormatCall("sage_mcp_server.plugin_query_service.format_plugin_data", rows,
                             format_plugin_data(rows))
    /\ UNCHANGED <<plugins, science_description_cache, last, rpc, rstate, observed>>

\* format_plugin_data(df, plugin) of src/plugin_query_service.py
FormatPluginDataTop ==
    /\ \E rows \in FormatTables :
          call' = FormatCall("plugin_query_service.format_plugin_data", rows,
                             format_plugin_data_top(rows))
    /\ UNCHANGED <<plugins, science_description_cache, last, rpc, rstate, observed>>

NextFormat == FormatPluginData \/ FormatPluginDataTop

SpecFormat == InitFormat /\ [][NextFormat]_vars

\* the numbers of the table: the cells that are, or read as, a number
NumericCells(rows) == {i \in 1..Len(rows) : rows[i].kind # "text"}

\* s is the summary of the numeric cells: the smallest, the largest, and their
\* mean to the nearest hundredth
SummarisesNumericCells(s, rows) ==
    LET cells == NumericCells(rows)
        total == SeriesSum([i \in 1..Len(rows) |-> IF i \in cells THEN rows[i].n ELSE 0])
        diff == 100 * total - s.average * Cardinality(cells)
    IN /\ \E i \in cells : s.minimum = 100 * rows[i].n
       /\ \A i \in cells : s.minimum <= 100 * rows[i].n
       /\ \E i \in cells : s.maximum = 100 * rows[i].n
       /\ \A i \in cells : s.maximum >= 100 * rows[i].n
       /\ 2 * diff <= Cardinality(cells) /\ -2 * diff <= Cardinality(cells)

\* C24 (as claimed): format_plugin_data returns a report for every table,
\* without an exception; the record count of the report is the number of
\* rows, numeric or not; the min/max/mean are those of the cells that coerce
\* to a number; a table without such a cell gets no numeric summary.
C24_SummaryOverNumericRows ==
    (call.tool # "none" /\ call.rows # <<>>) =>
        /\ ~call.report.raised
        /\ call.report.count = Len(call.rows)
        /\ IF NumericCells(call.rows) = {}
           THEN call.report.statistics = NoStatistics
           ELSE /\ Len(call.report.statistics) = 1
                /\ SummarisesNumericCells(call.report.statistics[1], call.rows)

(***************************************************************************)
(* SpecIntent: texts that name nodes, given to parse_natural_query and to  *)
(* query_by_natural_language over a registry of two plugins.               *)
(***************************************************************************)
\* ways a text names a node
NodeMentions ==
    {EmptyStr,
     SP \o node_W1,
     SP \o <<"o", "n">> \o SP \o <<"n", "o", "d", "e">> \o SP \o <<"w", "1">>}

IntentTexts == {b \o n : b \in TextBodies, n \in NodeMentions}

\* the loop of query_by_natural_language over the plugins found: one
\* query_plugin_data(plugin.id, params["nodes"], params["time_range"]) each
RECURSIVE QueriesForPlugins(_, _, _, _)
QueriesForPlugins(store, found, params, outcome) ==
    IF found = <<>> THEN <<>>
    ELSE plugin_query_plugin_data(store, found[1].id, params.nodes, params.time_range,
                                  outcome).queries
         \o QueriesForPlugins(store, Tail(found), params, outcome)

\* the time-series queries one query_by_natural_language issues
natural_language_queries(store, query, outcome) ==
    LET params == parse_natural_query(query)
        found == find_plugins_for_task(store, query).result
    IN IF StartOverflows(params.time_range) THEN <<>>
       ELSE QueriesForPlugins(store, found, params, outcome)

InitIntent ==
    LET r == refresh_cache(EmptyDict, EmptyCache,
                           [kind |-> "object", data |-> <<rec_a, rec_b>>,
                            docs |-> [x \in Refs |-> DocOk(doc_x)]])
    IN /\ plugins = r.plugins
       /\ science_description_cache = r.cache
       /\ last = Idle
       /\ rpc = "idle"
       /\ rstate = NoRefresh
       /\ observed = NotObserved
       /\ call = NoCall

\* parse_natural_query(query)
ParseNaturalQuery ==
    /\ \E text \in IntentTexts :
          call' = [tool |-> "parse_natural_query", text |-> text,
                   params |-> parse_natural_query(text), queries |-> <<>>,
                   outcome |-> Table(0)]
    /\ UNCHANGED <<plugins, science_description_cache, last, rpc, rstate, observed>>

\* query_by_natural_language(query)
NaturalLanguageQuery ==
    /\ \E text \in IntentTexts, o \in Outcomes :
          call' = [tool |-> "query_by_natural_language", text |-> text,
                   params |-> parse_natural_query(text),
                   queries |-> natural_language_queries(plugins, text, o),
                   outcome |-> o]
    /\ UNCHANGED <<plugins, science_description_cache, last, rpc, rstate, observed>>

NextIntent == ParseNaturalQuery \/ NaturalLanguageQuery

SpecIntent == InitIntent /\ [][NextIntent]_vars

\* C26: whatever the text, also one that names a node, parse_natural_query
\* leaves the node unconstrained (nodes is None), and every query that
\* query_by_natural_language builds from it has the match-all vsn `*`.
C26_NodeStaysUnconstrained ==
    call.tool # "none" =>
        /\ call.params.nodes = Absent
        /\ \A i \in 1..Len(call.queries) :
              /\ "vsn" \in DOMAIN call.queries[i].filter
              /\ call.queries[i].filter["vsn"] = STAR

C26_Witness ==
    /\ call.tool = "query_by_natural_language"
    /\ Contains(node_W1, call.text)
    /\ call.params.nodes = Absent
    /\ Len(call.queries) = 2
    /\ call.queries[1].filter["vsn"] = STAR
    /\ call.queries[2].filter["vsn"] = STAR

(***************************************************************************)
(* SpecRace: two refresh_cache calls that overlap, seen at their calls of  *)
(* _fetch_science_description.  The GET is where the other call runs: the  *)
(* test of the cache and the write to it are two steps.                    *)
(***************************************************************************)
ref_y == <<"y">>

RaceRefs == {ref_x, ref_y}

\* the answers of the document store: a failure, or status 200 with a text
RaceAnswers == {DocFail, DocOk(doc_x), DocOk(doc_y), DocOk(EmptyStr)}

Ingestions == {1, 2}

NotFetching == [pc |-> "idle", path |-> EmptyStr, content |-> EmptyStr, fetched |-> FALSE]

\* the history of the document store: the texts it served with status 200
\* for each path, and the text of the last GET of the path that returned 200
NoHistory == [served |-> [r \in RaceRefs |-> {}], written |-> [r \in RaceRefs |-> Absent]]

\* the cache after a GET that writes only when the path has no entry yet
CacheAfterGet_KeepsFirst(cache, path, answer) ==
    IF answer.ok /\ path \notin DOMAIN cache
    THEN [r \in DOMAIN cache \cup {path} |-> IF r = path THEN answer.text ELSE cache[r]]
    ELSE cache

\* the cache after a GET that stores the empty content of a failure
CacheAfterGet_CachesFailure(cache, path, answer) ==
    [r \in DOMAIN cache \cup {path} |-> IF r = path THEN answer.text ELSE cache[r]]

\* _fetch_science_description after its GET: status 200 writes the text into
\* the cache, over whatever is there; anything else writes nothing
CacheAfterGet(cache, path, answer) ==
    IF answer.ok
    THEN [r \in DOMAIN cache \cup {path} |-> IF r = path THEN answer.text ELSE cache[r]]
    ELSE cache

InitRace ==
    /\ plugins = EmptyDict
    /\ science_description_cache = EmptyCache
    /\ last = Idle
    /\ rpc = "idle"
    /\ rstate = [p \in Ingestions |-> NotFetching]
    /\ observed = NoHistory
    /\ call = NoCall

\* _fetch_science_description up to its GET: a cached path returns the entry
BeginFetch(p) ==
    /\ rstate[p].pc = "idle"
    /\ \E path \in RaceRefs :
          rstate' = [rstate EXCEPT ![p] =
                        IF path \in DOMAIN science_description_cache
                        THEN [pc |-> "idle", path |-> path,
                              content |-> science_description_cache[path],
                              fetched |-> FALSE]
                        ELSE [pc |-> "fetching", path |-> path, content |-> EmptyStr,
                              fetched |-> TRUE]]
    /\ UNCHANGED <<plugins, science_description_cache, last, rpc, observed, call>>

\* the GET answers: the rest of _fetch_science_description
EndFetch(p) ==
    /\ rstate[p].pc = "fetching"
    /\ \E answer \in RaceAnswers :
          LET path == rstate[p].path
          IN /\ science_description_cache'
                   = CacheAfterGet(science_description_cache, path, answer)
             /\ rstate' = [rstate EXCEPT ![p] =
                              [pc |-> "idle", path |-> path,
                               content |-> IF answer.ok THEN answer.text ELSE EmptyStr,
                               fetched |-> TRUE]]
             /\ observed' = IF answer.ok
                            THEN [served |-> [observed.served EXCEPT ![path] = @ \cup {answer.text}],
                                  written |-> [observed.written EXCEPT ![path] = Present(answer.text)]]
                            ELSE observed
    /\ UNCHANGED <<plugins, last, rpc, call>>

NextRace == (\E p \in Ingestions : BeginFetch(p)) \/ (\E p \in Ingestions : EndFetch(p))

SpecRace == InitRace /\ [][NextRace]_vars

\* C29: two overlapping refreshes may both fetch a path; in every state the
\* cache has no entry for a path, or the text of a GET of that path that
\* answered 200, namely of the last one that did (last write wins); a GET
\* that fails never puts its empty content into the cache.
C29_CacheHoldsFetchedText ==
    \A ref \in RaceRefs :
        IF ref \in DOMAIN science_description_cache
        THEN /\ science_description_cache[ref] \in observed.served[ref]
             /\ observed.written[ref] = Present(science_description_cache[ref])
        ELSE /\ observed.served[ref] = {}
             /\ observed.written[ref] = Absent

C29_Witness ==
    /\ rstate[1] = [pc |-> "idle", path |-> ref_x, content |-> doc_x, fetched |-> TRUE]
    /\ rstate[2] = [pc |-> "idle", path |-> ref_x, content |-> doc_y, fetched |-> TRUE]
    /\ observed.served[ref_x] = {doc_x, doc_y}
    /\ science_description_cache[ref_x] = doc_y
    /\ ref_y \notin DOMAIN science_description_cache

====
